---- MODULE Spec2Model ----
(***************************************************************************)
(* LED ring effects of rustyfarian-ws2812 (crate ferriswheel): the numeric *)
(* primitives, the HSV conversion, the validation layer and the seven      *)
(* effects behind the Effect trait, driven by a caller that owns the       *)
(* effect and the pixel buffer.                                            *)
(*                                                                         *)
(* Colours are triples <<r, g, b>> of 8-bit channels.  A buffer is a       *)
(* sequence of colours; pixel index i of the code is element i + 1.        *)
(* Integer arithmetic keeps the width the code gives it: a subtraction or  *)
(* multiplication that leaves its type panics in a build with overflow     *)
(* checks and wraps in a build without them, and `platform` says which     *)
(* build the program is.                                                   *)
(***************************************************************************)
EXTENDS Integers, Sequences, FiniteSets, TLC

VARIABLES
    platform,   \* the build: "debug" (overflow checks), "release32", "release64"
    eff,        \* the effect object the caller holds (kind "none": no object)
    buf,        \* the caller's pixel buffer
    res,        \* what the last call returned
    op,         \* the last call made
    arg,        \* the argument of the last call
    stage,      \* "unbuilt", "config" (builder chain), "run", "halted" (panicked)
    k,          \* successful update() calls since construction or reset()
    made        \* the object as its constructor returned it (kind "none": no object)

vars == <<platform, eff, buf, res, op, arg, stage, k, made>>

(***************************************************************************)
(* Bounds of the model.                                                    *)
(***************************************************************************)
\* Ring sizes 1..MaxN are driven; MAX_LEDS and its neighbours are added to them.
MaxN == 2
\* The caller's buffers have num_leds - 1 .. num_leds + ExtraBuf entries.
ExtraBuf == 1
\* update() calls explored after construction or reset().
MaxTicks == 3
\* update() calls explored for a Flash alone: more than one 8-bit round.
FlashMaxTicks == 260

(***************************************************************************)
(* Program constants.                                                      *)
(***************************************************************************)
MAX_LEDS == 256
MAX_SECTIONS == 8

Black == <<0, 0, 0>>
White == <<255, 255, 255>>

U8(x) == x % 256
U16(x) == x % 65536

(***************************************************************************)
(* Results.                                                                *)
(***************************************************************************)
OkRes == [tag |-> "Ok"]
PanicRes == [tag |-> "Panic"]
ZeroLeds == [tag |-> "ZeroLeds"]
TooManyLeds(requested, max) ==
    [tag |-> "TooManyLeds", requested |-> requested, max |-> max]
ZeroStep == [tag |-> "ZeroStep"]
ZeroDuty == [tag |-> "ZeroDuty"]
BufferTooSmall(required, actual) ==
    [tag |-> "BufferTooSmall", required |-> required, actual |-> actual]
TooManySections(requested, max) ==
    [tag |-> "TooManySections", requested |-> requested, max |-> max]

NoEffect == [kind |-> "none"]

(***************************************************************************)
(* util.rs: numeric primitives.                                            *)
(***************************************************************************)
SINE_TABLE ==
   <<  0,   3,   6,   9,  12,  16,  19,  22,  25,  28,  31,  34,  37,  40,  44,  47,
      50,  53,  56,  59,  62,  65,  68,  71,  74,  77,  80,  83,  86,  89,  92,  95,
      98, 100, 103, 106, 109, 112, 115, 117, 120, 123, 126, 128, 131, 134, 136, 139,
     142, 144, 147, 149, 152, 154, 157, 159, 162, 164, 167, 169, 171, 174, 176, 178,
     181, 183, 185, 187, 189, 192, 194, 196, 198, 200, 202, 204, 206, 207, 209, 211,
     213, 215, 216, 218, 220, 221, 223, 225, 226, 228, 229, 231, 232, 234, 235, 236,
     238, 239, 240, 242, 243, 244, 245, 246, 247, 248, 249, 250, 251, 252, 253, 253,
     254, 255, 255, 255, 255, 255, 255, 255, 255, 255, 255, 255, 255, 255, 254, 253,
     253, 252, 251, 250, 249, 248, 247, 246, 245, 244, 243, 242, 240, 239, 238, 236,
     235, 234, 232, 231, 229, 228, 226, 225, 223, 221, 220, 218, 216, 215, 213, 211,
     209, 207, 206, 204, 202, 200, 198, 196, 194, 192, 189, 187, 185, 183, 181, 178,
     176, 174, 171, 169, 167, 164, 162, 159, 157, 154, 152, 149, 147, 144, 142, 139,
     136, 134, 131, 128, 126, 123, 120, 117, 115, 112, 109, 106, 103, 100,  98,  95,
      92,  89,  86,  83,  80,  77,  74,  71,  68,  65,  62,  59,  56,  53,  50,  47,
      44,  40,  37,  34,  31,  28,  25,  22,  19,  16,  12,   9,   6,   3,   0,   0,
       0,   0,   0,   0,   0,   0,   0,   0,   0,   0,   0,   0,   0,   0,   0,   0>>

\* Variant of sine_wave: the table is read one entry late.
sine_wave_late(phase) == SINE_TABLE[((phase + 1) % 256) + 1]

\* Variant of sine_wave: the hump is stretched and the plateau cut short.
sine_wave_short(phase) == IF phase \in 120..125 THEN 254 ELSE SINE_TABLE[phase + 1]

sine_wave(phase) == SINE_TABLE[phase + 1]

scale_brightness(color, brightness) ==
    <<U8((color[1] * brightness) \div 255),
      U8((color[2] * brightness) \div 255),
      U8((color[3] * brightness) \div 255)>>

lerp_color(a, b, t) ==
    LET inv == 255 - t
    IN  <<U8((a[1] * inv + b[1] * t) \div 255),
          U8((a[2] * inv + b[2] * t) \div 255),
          U8((a[3] * inv + b[3] * t) \div 255)>>

\* Variant of fill_solid: the [..n] slice is forgotten and every entry is written.
fill_solid_whole(buffer, n, color) == [i \in 1..Len(buffer) |-> color]

\* fill_solid(&mut buffer[..n], color): the first n entries, the rest kept.
fill_solid(buffer, n, color) ==
    [i \in 1..Len(buffer) |-> IF i <= n THEN color ELSE buffer[i]]

\* buffer[idx] = color, idx the code's 0-based index (SubSeq over the whole
\* length is the buffer itself, written out as a tuple).
SetPixel(buffer, idx, color) ==
    [SubSeq(buffer, 1, Len(buffer)) EXCEPT ![idx + 1] = color]

(***************************************************************************)
(* hsv.rs: integer HSV to RGB.                                             *)
(***************************************************************************)
\* Variant of hsv_to_rgb: the grayscale shortcut returns white.
hsv_to_rgb_white(hue, saturation, value) ==
    IF saturation = 0 THEN <<255, 255, 255>>
    ELSE <<value, U8(U16(value * (255 - saturation)) \div 255), 0>>

\* Variant of hsv_to_rgb: the last arm of the match leaves value out.
hsv_to_rgb_dim(hue, saturation, value) ==
    IF saturation = 0 THEN <<value, value, value>>
    ELSE
      LET h == U16(hue * 6)
          sector == U8(h \div 256)
          fraction == U8(h % 256)
          p == U8(U16(value * (255 - saturation)) \div 255)
          q == U8(U16(value * (255 - U16(saturation * fraction) \div 255)) \div 255)
          t == U8(U16(value * (255 - U16(saturation * (255 - fraction)) \div 255))
                    \div 255)
      IN  CASE sector = 0 -> <<value, t, p>>
            [] sector = 1 -> <<q, value, p>>
            [] sector = 2 -> <<p, value, t>>
            [] sector = 3 -> <<p, q, value>>
            [] sector = 4 -> <<t, p, value>>
            [] OTHER      -> <<p, p, q>>

\* The intermediates of hsv_to_rgb for saturation > 0; overflow tells whether
\* a product or difference of its 16-bit arithmetic leaves 0..65535.
hsv_parts(hue, saturation, value) ==
    LET h == U16(hue * 6)
        fraction == U8(h % 256)
        sf == U16(saturation * fraction) \div 255
        sg == U16(saturation * (255 - fraction)) \div 255
    IN  [sector |-> U8(h \div 256),
         p |-> U8(U16(value * (255 - saturation)) \div 255),
         q |-> U8(U16(value * (255 - sf)) \div 255),
         t |-> U8(U16(value * (255 - sg)) \div 255),
         overflow |-> \/ hue * 6 > 65535
                      \/ value * (255 - saturation) > 65535
                      \/ saturation * fraction > 65535
                      \/ saturation * (255 - fraction) > 65535
                      \/ sf > 255 \/ sg > 255
                      \/ value * (255 - sf) > 65535
                      \/ value * (255 - sg) > 65535]

hsv_to_rgb(hue, saturation, value) ==
    IF saturation = 0 THEN <<value, value, value>>
    ELSE
      LET h == U16(hue * 6)
          sector == U8(h \div 256)
          fraction == U8(h % 256)
          s == saturation
          v == value
          p == U8(U16(v * (255 - s)) \div 255)
          q == U8(U16(v * (255 - U16(s * fraction) \div 255)) \div 255)
          t == U8(U16(v * (255 - U16(s * (255 - fraction)) \div 255)) \div 255)
      IN  CASE sector = 0 -> <<value, t, p>>
            [] sector = 1 -> <<q, value, p>>
            [] sector = 2 -> <<p, value, t>>
            [] sector = 3 -> <<p, q, value>>
            [] sector = 4 -> <<t, p, value>>
            [] OTHER      -> <<value, p, q>>

(***************************************************************************)
(* effect.rs: the validation layer and the shared position rule.           *)
(***************************************************************************)
validate_speed(speed) == IF speed = 0 THEN ZeroStep ELSE OkRes

\* Variant of validate_num_leds: the upper limit is tested with >=.
validate_num_leds_strict(num_leds) ==
    IF num_leds = 0 THEN ZeroLeds
    ELSE IF num_leds >= MAX_LEDS THEN TooManyLeds(num_leds, MAX_LEDS)
    ELSE OkRes

validate_num_leds(num_leds) ==
    IF num_leds = 0 THEN ZeroLeds
    ELSE IF num_leds > MAX_LEDS THEN TooManyLeds(num_leds, MAX_LEDS)
    ELSE OkRes

validate_buffer(buffer, num_leds) ==
    IF Len(buffer) < num_leds THEN BufferTooSmall(num_leds, Len(buffer))
    ELSE OkRes

\* Variant of validate_duty: an error only when both counts are 0.
validate_duty_both(on_ticks, off_ticks) ==
    IF on_ticks = 0 /\ off_ticks = 0 THEN ZeroDuty ELSE OkRes

validate_duty(on_ticks, off_ticks) ==
    IF on_ticks = 0 \/ off_ticks = 0 THEN ZeroDuty ELSE OkRes

\* rem_euclid: the non-negative remainder (TLA+'s % is already Euclidean for a
\* positive modulus).
rem_euclid(a, n) == a % n

\* Variant of advance_position: the clockwise sum is taken in u8 before the
\* remainder.
advance_position_narrow(position, speed, num_leds, direction) ==
    IF direction = "Clockwise"
    THEN U8(rem_euclid(U8(position + speed), num_leds))
    ELSE U8(rem_euclid(position - speed, num_leds))

\* Variant of advance_position: the counter-clockwise remainder keeps the
\* sign of the dividend before the cast.
advance_position_signed(position, speed, num_leds, direction) ==
    IF direction = "Clockwise"
    THEN U8(rem_euclid(position + speed, num_leds))
    ELSE IF position >= speed THEN U8((position - speed) % num_leds)
    ELSE U8(256 - ((speed - position) % num_leds))

advance_position(position, speed, num_leds, direction) ==
    IF direction = "Clockwise"
    THEN U8(rem_euclid(position + speed, num_leds))
    ELSE U8(rem_euclid(position - speed, num_leds))

(***************************************************************************)
(* Arithmetic that can leave its type.  A value of the form                *)
(* [panic, val]: panic when the build checks overflow, val the wrapped     *)
(* result otherwise.                                                       *)
(***************************************************************************)
Checks(plat) == plat = "debug"
UsizeBits(plat) == IF plat = "release32" THEN 32 ELSE 64

RECURSIVE Pow2Mod(_, _)
Pow2Mod(w, n) ==
    IF w = 0 THEN 1 % n
    ELSE IF w % 2 = 1 THEN (2 * Pow2Mod(w - 1, n)) % n
    ELSE LET half == Pow2Mod(w \div 2, n) IN (half * half) % n

\* (x as usize) % n for a mathematical x that may be negative: the usize value
\* is x + 2^bits when x < 0.
UsizeMod(x, n, plat) ==
    IF x >= 0 THEN x % n
    ELSE (Pow2Mod(UsizeBits(plat), n) + (x % n)) % n

(***************************************************************************)
(* rainbow.rs                                                              *)
(***************************************************************************)
Rainbow_new(num_leds) ==
    IF num_leds = 0 THEN [res |-> ZeroLeds, self |-> NoEffect]
    ELSE IF num_leds > MAX_LEDS
    THEN [res |-> TooManyLeds(num_leds, MAX_LEDS), self |-> NoEffect]
    ELSE [res |-> OkRes,
          self |-> [kind |-> "rainbow", num_leds |-> num_leds, hue_offset |-> 0,
                    speed |-> 1, brightness |-> 255, saturation |-> 255,
                    direction |-> "Clockwise"]]

Rainbow_with_speed(self, speed) ==
    IF speed = 0 THEN [res |-> ZeroStep, self |-> NoEffect]
    ELSE [res |-> OkRes, self |-> [self EXCEPT !.speed = speed]]

\* Variant of Rainbow_pixel: the product i * 256 is cut to 8 bits before
\* the division.
Rainbow_pixel_narrow(self, i) ==
    LET led_hue == U8(i * 256) \div self.num_leds
        hue == U8(led_hue + self.hue_offset)
    IN  hsv_to_rgb(hue, self.saturation, self.brightness)

Rainbow_pixel(self, i) ==
    LET led_hue == U8((i * 256) \div self.num_leds)
        hue == U8(led_hue + self.hue_offset)
    IN  hsv_to_rgb(hue, self.saturation, self.brightness)

Rainbow_current(self, buffer) ==
    IF Len(buffer) < self.num_leds
    THEN [res |-> BufferTooSmall(self.num_leds, Len(buffer)), buf |-> buffer]
    ELSE [res |-> OkRes,
          buf |-> [j \in 1..Len(buffer) |->
                     IF j <= self.num_leds THEN Rainbow_pixel(self, j - 1)
                     ELSE buffer[j]]]

\* Variant of Rainbow_advance: the counter-clockwise arm is left out.
Rainbow_advance_clockwise(self) ==
    IF self.direction = "Clockwise"
    THEN [self EXCEPT !.hue_offset = U8(self.hue_offset + self.speed)]
    ELSE self

Rainbow_advance(self) ==
    IF self.direction = "Clockwise"
    THEN [self EXCEPT !.hue_offset = U8(self.hue_offset + self.speed)]
    ELSE [self EXCEPT !.hue_offset = U8(self.hue_offset - self.speed)]

Rainbow_update(self, buffer) ==
    LET r == Rainbow_current(self, buffer)
    IN  IF r.res.tag # "Ok" THEN [res |-> r.res, buf |-> r.buf, self |-> self]
        ELSE [res |-> OkRes, buf |-> r.buf, self |-> Rainbow_advance(self)]

\* Variant of Rainbow_reset: the wrong field is restored.
Rainbow_reset_speed(self) == [self EXCEPT !.speed = 1]

Rainbow_reset(self) == [self EXCEPT !.hue_offset = 0]

(***************************************************************************)
(* pulse.rs                                                                *)
(***************************************************************************)
Pulse_new(num_leds) ==
    LET v == validate_num_leds(num_leds)
    IN  IF v.tag # "Ok" THEN [res |-> v, self |-> NoEffect]
        ELSE [res |-> OkRes,
              self |-> [kind |-> "pulse", num_leds |-> num_leds, color |-> White,
                        phase |-> 0, speed |-> 2, min_brightness |-> 0,
                        max_brightness |-> 255]]

Pulse_with_speed(self, speed) ==
    LET v == validate_speed(speed)
    IN  IF v.tag # "Ok" THEN [res |-> v, self |-> NoEffect]
        ELSE [res |-> OkRes, self |-> [self EXCEPT !.speed = speed]]

\* [panic, ovf, val]: ovf when some u16 step left its type.
\* Variant of current_brightness: the product is shifted, not divided by 255.
Pulse_current_brightness_shift(self, plat) ==
    LET sine_val == sine_wave(self.phase)
        diff == self.max_brightness - self.min_brightness
        sum == self.min_brightness + U16(sine_val * U16(diff)) \div 256
    IN  [panic |-> diff < 0 /\ Checks(plat), ovf |-> diff < 0, val |-> U8(U16(sum))]

Pulse_current_brightness(self, plat) ==
    LET sine_val == sine_wave(self.phase)
        diff == self.max_brightness - self.min_brightness
        range == U16(diff)
        prod == sine_val * range
        sum == self.min_brightness + U16(prod) \div 255
        ovf == diff < 0 \/ prod > 65535 \/ sum > 65535
    IN  [panic |-> ovf /\ Checks(plat), ovf |-> ovf, val |-> U8(U16(sum))]

Pulse_current(self, buffer, plat) ==
    LET v == validate_buffer(buffer, self.num_leds)
        b == Pulse_current_brightness(self, plat)
        pixel == scale_brightness(self.color, b.val)
    IN  IF v.tag # "Ok" THEN [res |-> v, buf |-> buffer]
        ELSE IF b.panic THEN [res |-> PanicRes, buf |-> buffer]
        ELSE [res |-> OkRes, buf |-> fill_solid(buffer, self.num_leds, pixel)]

Pulse_update(self, buffer, plat) ==
    LET r == Pulse_current(self, buffer, plat)
    IN  IF r.res.tag # "Ok" THEN [res |-> r.res, buf |-> r.buf, self |-> self]
        ELSE [res |-> OkRes, buf |-> r.buf,
              self |-> [self EXCEPT !.phase = U8(self.phase + self.speed)]]

Pulse_reset(self) == [self EXCEPT !.phase = 0]

(***************************************************************************)
(* spinner.rs                                                              *)
(***************************************************************************)
Spinner_new(num_leds) ==
    LET v == validate_num_leds(num_leds)
    IN  IF v.tag # "Ok" THEN [res |-> v, self |-> NoEffect]
        ELSE [res |-> OkRes,
              self |-> [kind |-> "spinner", num_leds |-> num_leds, color |-> White,
                        position |-> 0, speed |-> 1, tail_length |-> 2,
                        direction |-> "Clockwise"]]

Spinner_with_speed(self, speed) ==
    LET v == validate_speed(speed)
    IN  IF v.tag # "Ok" THEN [res |-> v, self |-> NoEffect]
        ELSE [res |-> OkRes, self |-> [self EXCEPT !.speed = speed]]

\* The brightness of tail pixel i: (255 * (total - i) / total) as u8.
Spinner_tail_brightness(tail_length, i) ==
    LET total == tail_length + 1
    IN  U8((255 * (total - i)) \div total)

\* Variant of the tail index: the tail runs ahead of the head.
Spinner_tail_idx_ahead(self, head, i, plat) ==
    LET n == self.num_leds
    IN  IF self.direction = "Clockwise"
        THEN [panic |-> FALSE, idx |-> (head + i) % n]
        ELSE [panic |-> FALSE, idx |-> (head + n * 256 - i) % n]

\* The index of tail pixel i; [panic, idx].  head + n - i is usize arithmetic.
Spinner_tail_idx(self, head, i, plat) ==
    LET n == self.num_leds
    IN  IF self.direction = "Clockwise"
        THEN [panic |-> head + n - i < 0 /\ Checks(plat),
              idx |-> UsizeMod(head + n - i, n, plat)]
        ELSE [panic |-> FALSE, idx |-> (head + i) % n]

\* The tail steps lo..hi in the order the code writes them, stopping at the
\* first step that panics (the range is halved to keep the evaluation shallow).
RECURSIVE Spinner_tail_range(_, _, _, _, _, _)
Spinner_tail_range(self, buffer, head, lo, hi, plat) ==
    IF lo > hi THEN [res |-> OkRes, buf |-> buffer]
    ELSE IF lo = hi
    THEN LET t == Spinner_tail_idx(self, head, lo, plat)
             c == scale_brightness(self.color,
                                   Spinner_tail_brightness(self.tail_length, lo))
         IN  IF t.panic THEN [res |-> PanicRes, buf |-> buffer]
             ELSE [res |-> OkRes, buf |-> SetPixel(buffer, t.idx, c)]
    ELSE LET mid == (lo + hi) \div 2
             first == Spinner_tail_range(self, buffer, head, lo, mid, plat)
         IN  IF first.res.tag # "Ok" THEN first
             ELSE Spinner_tail_range(self, first.buf, head, mid + 1, hi, plat)

\* The tail loop from i on.
Spinner_tail(self, buffer, head, i, plat) ==
    Spinner_tail_range(self, buffer, head, i, self.tail_length, plat)

Spinner_current(self, buffer, plat) ==
    LET v == validate_buffer(buffer, self.num_leds)
        n == self.num_leds
        head == self.position % n
        cleared == fill_solid(buffer, n, Black)
    IN  IF v.tag # "Ok" THEN [res |-> v, buf |-> buffer]
        ELSE Spinner_tail(self, SetPixel(cleared, head, self.color), head, 1, plat)

\* Variant of the advance in update: the sum is taken in u8 before the
\* remainder.
Spinner_advance_narrow(self) ==
    IF self.direction = "Clockwise"
    THEN [self EXCEPT !.position =
              U8(rem_euclid(U8(self.position + self.speed), self.num_leds))]
    ELSE [self EXCEPT !.position =
              U8(rem_euclid(self.position - self.speed, self.num_leds))]

Spinner_advance(self) ==
    IF self.direction = "Clockwise"
    THEN [self EXCEPT !.position =
              U8(rem_euclid(self.position + self.speed, self.num_leds))]
    ELSE [self EXCEPT !.position =
              U8(rem_euclid(self.position - self.speed, self.num_leds))]

Spinner_update(self, buffer, plat) ==
    LET r == Spinner_current(self, buffer, plat)
    IN  IF r.res.tag # "Ok" THEN [res |-> r.res, buf |-> r.buf, self |-> self]
        ELSE [res |-> OkRes, buf |-> r.buf, self |-> Spinner_advance(self)]

Spinner_reset(self) == [self EXCEPT !.position = 0]

(***************************************************************************)
(* chase.rs                                                                *)
(***************************************************************************)
Chase_new(num_leds) ==
    LET v == validate_num_leds(num_leds)
    IN  IF v.tag # "Ok" THEN [res |-> v, self |-> NoEffect]
        ELSE [res |-> OkRes,
              self |-> [kind |-> "chase", num_leds |-> num_leds, color |-> White,
                        position |-> 0, speed |-> 1, segment_length |-> 3,
                        direction |-> "Clockwise"]]

Chase_with_speed(self, speed) ==
    LET v == validate_speed(speed)
    IN  IF v.tag # "Ok" THEN [res |-> v, self |-> NoEffect]
        ELSE [res |-> OkRes, self |-> [self EXCEPT !.speed = speed]]

\* Variant of the segment loop: the index is clamped to the end of the ring
\* instead of wrapping.
Chase_segment_clamped(self, buffer, i) ==
    [j \in 1..Len(buffer) |->
        IF \E s \in i..(self.segment_length - 1) :
               j - 1 = IF self.position + s >= self.num_leds
                       THEN self.num_leds - 1 ELSE self.position + s
        THEN self.color ELSE buffer[j]]

\* The segment steps lo..hi in the order the code writes them (the range is
\* halved to keep the evaluation shallow).
RECURSIVE Chase_segment_range(_, _, _, _)
Chase_segment_range(self, buffer, lo, hi) ==
    IF lo > hi THEN buffer
    ELSE IF lo = hi
    THEN SetPixel(buffer, (self.position + lo) % self.num_leds, self.color)
    ELSE LET mid == (lo + hi) \div 2
             first == Chase_segment_range(self, buffer, lo, mid)
         IN  IF Len(first) < 0 THEN first
             ELSE Chase_segment_range(self, first, mid + 1, hi)

\* The segment loop from i on.
Chase_segment(self, buffer, i) ==
    Chase_segment_range(self, buffer, i, self.segment_length - 1)

\* Variant of current: the segment is drawn without clearing the ring first.
Chase_current_dirty(self, buffer) ==
    LET v == validate_buffer(buffer, self.num_leds)
    IN  IF v.tag # "Ok" THEN [res |-> v, buf |-> buffer]
        ELSE [res |-> OkRes, buf |-> Chase_segment(self, buffer, 0)]

Chase_current(self, buffer) ==
    LET v == validate_buffer(buffer, self.num_leds)
    IN  IF v.tag # "Ok" THEN [res |-> v, buf |-> buffer]
        ELSE [res |-> OkRes,
              buf |-> Chase_segment(self, fill_solid(buffer, self.num_leds, Black), 0)]

Chase_update(self, buffer) ==
    LET r == Chase_current(self, buffer)
    IN  IF r.res.tag # "Ok" THEN [res |-> r.res, buf |-> r.buf, self |-> self]
        ELSE [res |-> OkRes, buf |-> r.buf,
              self |-> [self EXCEPT !.position =
                          advance_position(self.position, self.speed,
                                           self.num_leds, self.direction)]]

Chase_reset(self) == [self EXCEPT !.position = 0]

(***************************************************************************)
(* flash.rs                                                                *)
(***************************************************************************)
Flash_new(num_leds) ==
    LET v == validate_num_leds(num_leds)
    IN  IF v.tag # "Ok" THEN [res |-> v, self |-> NoEffect]
        ELSE [res |-> OkRes,
              self |-> [kind |-> "flash", num_leds |-> num_leds, color |-> White,
                        off_color |-> Black, on_ticks |-> 4, off_ticks |-> 4,
                        counter |-> 0]]

Flash_with_duty(self, on_ticks, off_ticks) ==
    LET v == validate_duty(on_ticks, off_ticks)
    IN  IF v.tag # "Ok" THEN [res |-> v, self |-> NoEffect]
        ELSE [res |-> OkRes,
              self |-> [self EXCEPT !.on_ticks = on_ticks, !.off_ticks = off_ticks]]

Flash_is_on(self) == self.counter < self.on_ticks

Flash_current(self, buffer) ==
    LET v == validate_buffer(buffer, self.num_leds)
        color == IF Flash_is_on(self) THEN self.color ELSE self.off_color
    IN  IF v.tag # "Ok" THEN [res |-> v, buf |-> buffer]
        ELSE [res |-> OkRes, buf |-> fill_solid(buffer, self.num_leds, color)]

\* cycle and the sum are u16; the result is stored with `as u8`.
Flash_advance(self) ==
    LET cycle == U16(self.on_ticks + self.off_ticks)
    IN  [self EXCEPT !.counter = U8(U16(self.counter + 1) % cycle)]

\* Variant of Flash_update: the counter advances before the result is looked at.
Flash_update_eager(self, buffer) ==
    LET r == Flash_current(self, buffer)
    IN  [res |-> r.res, buf |-> r.buf, self |-> Flash_advance(self)]

Flash_update(self, buffer) ==
    LET r == Flash_current(self, buffer)
    IN  IF r.res.tag # "Ok" THEN [res |-> r.res, buf |-> r.buf, self |-> self]
        ELSE [res |-> OkRes, buf |-> r.buf, self |-> Flash_advance(self)]

Flash_reset(self) == [self EXCEPT !.counter = 0]

(***************************************************************************)
(* progress.rs                                                             *)
(***************************************************************************)
Progress_new(num_leds) ==
    LET v == validate_num_leds(num_leds)
    IN  IF v.tag # "Ok" THEN [res |-> v, self |-> NoEffect]
        ELSE [res |-> OkRes,
              self |-> [kind |-> "progress", num_leds |-> num_leds,
                        fill_color |-> <<0, 255, 0>>, empty_color |-> Black,
                        progress |-> 0]]

Progress_set_progress(self, progress) == [self EXCEPT !.progress = progress]

\* Variant of Progress_pixel: the partial pixel is blended from fill_color
\* towards empty_color.
Progress_pixel_swapped(self, i) ==
    LET n == self.num_leds
        fill_256 == self.progress * n
        full_leds == fill_256 \div 255
        fractional == U8(((fill_256 % 255) * 255) \div 255)
    IN  IF i < full_leds THEN self.fill_color
        ELSE IF i = full_leds /\ full_leds < n
        THEN lerp_color(self.fill_color, self.empty_color, fractional)
        ELSE self.empty_color

\* Variant of Progress_pixel: LED space is scaled by 256 instead of 255.
Progress_pixel_256(self, i) ==
    LET n == self.num_leds
        fill_256 == self.progress * n
        full_leds == fill_256 \div 256
        fractional == U8(fill_256 % 256)
    IN  IF i < full_leds THEN self.fill_color
        ELSE IF i = full_leds /\ full_leds < n
        THEN lerp_color(self.empty_color, self.fill_color, fractional)
        ELSE self.empty_color

Progress_pixel(self, i) ==
    LET n == self.num_leds
        fill_256 == self.progress * n
        full_leds == fill_256 \div 255
        fractional == U8(((fill_256 % 255) * 255) \div 255)
    IN  IF i < full_leds THEN self.fill_color
        ELSE IF i = full_leds /\ full_leds < n
        THEN lerp_color(self.empty_color, self.fill_color, fractional)
        ELSE self.empty_color

\* Variant of Progress_current: the partial pixel is blended with what the
\* buffer holds instead of empty_color.
Progress_current_blend(self, buffer) ==
    LET v == validate_buffer(buffer, self.num_leds)
        n == self.num_leds
        full_leds == (self.progress * n) \div 255
        fractional == U8((((self.progress * n) % 255) * 255) \div 255)
    IN  IF v.tag # "Ok" THEN [res |-> v, buf |-> buffer]
        ELSE [res |-> OkRes,
              buf |-> [j \in 1..Len(buffer) |->
                         IF j > n THEN buffer[j]
                         ELSE IF j - 1 = full_leds
                         THEN lerp_color(buffer[j], self.fill_color, fractional)
                         ELSE Progress_pixel(self, j - 1)]]

Progress_current(self, buffer) ==
    LET v == validate_buffer(buffer, self.num_leds)
    IN  IF v.tag # "Ok" THEN [res |-> v, buf |-> buffer]
        ELSE [res |-> OkRes,
              buf |-> [j \in 1..Len(buffer) |->
                         IF j <= self.num_leds THEN Progress_pixel(self, j - 1)
                         ELSE buffer[j]]]

Progress_update(self, buffer) ==
    LET r == Progress_current(self, buffer)
    IN  [res |-> r.res, buf |-> r.buf, self |-> self]

Progress_reset(self) == [self EXCEPT !.progress = 0]

(***************************************************************************)
(* palette.rs, section.rs                                                  *)
(***************************************************************************)
ColorPalette_new(primary, secondary, accent) ==
    [primary |-> primary, secondary |-> secondary, accent |-> accent]

ColorPalette_mono(color) ==
    [primary |-> color, secondary |-> color, accent |-> color]

\* A section entry (ColorPalette, u8).
Entry(palette, weight) == [palette |-> palette, weight |-> weight]

Section_new(num_leds) ==
    LET v == validate_num_leds(num_leds)
    IN  IF v.tag # "Ok" THEN [res |-> v, self |-> NoEffect]
        ELSE [res |-> OkRes,
              self |-> [kind |-> "section", num_leds |-> num_leds,
                        sections |-> [i \in 1..MAX_SECTIONS |->
                                        Entry(ColorPalette_mono(Black), 0)],
                        count |-> 0]]

\* Variant of Section_set_sections: the entries that fit are stored before the
\* length is checked.
Section_set_sections_early(self, sections) ==
    LET stored == [i \in 1..MAX_SECTIONS |->
                     IF i <= Len(sections) THEN sections[i] ELSE self.sections[i]]
    IN  IF Len(sections) > MAX_SECTIONS
        THEN [res |-> TooManySections(Len(sections), MAX_SECTIONS),
              self |-> [self EXCEPT !.sections = stored]]
        ELSE [res |-> OkRes,
              self |-> [self EXCEPT !.sections = stored, !.count = Len(sections)]]

Section_set_sections(self, sections) ==
    IF Len(sections) > MAX_SECTIONS
    THEN [res |-> TooManySections(Len(sections), MAX_SECTIONS), self |-> self]
    ELSE [res |-> OkRes,
          self |-> [self EXCEPT
                      !.sections = [i \in 1..MAX_SECTIONS |->
                                      IF i <= Len(sections) THEN sections[i]
                                      ELSE self.sections[i]],
                      !.count = Len(sections)]]

Section_clear(self) == [self EXCEPT !.count = 0]

\* Variant of the total weight: every slot of the array is summed, whatever
\* the count.
SumWeights_all(sections, count) ==
    sections[1].weight + sections[2].weight + sections[3].weight
        + sections[4].weight + sections[5].weight + sections[6].weight
        + sections[7].weight + sections[8].weight

RECURSIVE SumWeights(_, _)
SumWeights(sections, count) ==
    IF count = 0 THEN 0
    ELSE sections[count].weight + SumWeights(sections, count - 1)

\* Variant of Section_effective_weight: all-zero weights are kept as zero.
Section_effective_weight_zero(self, total_weight, i) ==
    IF i < self.count THEN self.sections[i + 1].weight ELSE 0

\* effective_weights[i], i the code's 0-based index.
Section_effective_weight(self, total_weight, i) ==
    IF total_weight = 0 THEN 1
    ELSE IF i < self.count THEN self.sections[i + 1].weight ELSE 0

\* Variant of Section_leds_for_section: the last section is sized like the
\* others and absorbs no remainder.
Section_leds_for_section_floor(self, total_weight, i, led_idx) ==
    LET effective_total == IF total_weight = 0 THEN self.count ELSE total_weight
    IN  (Section_effective_weight(self, total_weight, i) * self.num_leds)
            \div effective_total

\* Variant of Section_leds_for_section: the share of a section is rounded up.
Section_leds_for_section_ceil(self, total_weight, i, led_idx) ==
    LET effective_total == IF total_weight = 0 THEN self.count ELSE total_weight
        weight == Section_effective_weight(self, total_weight, i)
    IN  IF i = self.count - 1 THEN self.num_leds - led_idx
        ELSE (weight * self.num_leds + effective_total - 1) \div effective_total

\* Variant of Section_leds_for_section: a section before the last is never
\* left without an LED.
Section_leds_for_section_lit(self, total_weight, i, led_idx) ==
    LET effective_total == IF total_weight = 0 THEN self.count ELSE total_weight
        weight == Section_effective_weight(self, total_weight, i)
        share == (weight * self.num_leds) \div effective_total
    IN  IF i = self.count - 1 THEN self.num_leds - led_idx
        ELSE IF share = 0 /\ led_idx < self.num_leds THEN 1 ELSE share

\* leds_for_section of section i, led_idx LEDs assigned so far.
Section_leds_for_section(self, total_weight, i, led_idx) ==
    LET effective_total == IF total_weight = 0 THEN self.count ELSE total_weight
        weight == Section_effective_weight(self, total_weight, i)
    IN  IF i = self.count - 1 THEN self.num_leds - led_idx
        ELSE (weight * self.num_leds) \div effective_total

\* The section loop from section i on, led_idx LEDs assigned so far.  A slice
\* that leaves the buffer panics in every build.
RECURSIVE Section_fill(_, _, _, _, _)
Section_fill(self, buffer, total_weight, i, led_idx) ==
    IF i >= self.count THEN [res |-> OkRes, buf |-> buffer]
    ELSE
      LET leds_for_section == Section_leds_for_section(self, total_weight, i, led_idx)
          primary == self.sections[i + 1].palette.primary
      IN  IF leds_for_section < 0 \/ led_idx + leds_for_section > Len(buffer)
          THEN [res |-> PanicRes, buf |-> buffer]
          ELSE Section_fill(self,
                            [j \in 1..Len(buffer) |->
                               IF led_idx < j /\ j <= led_idx + leds_for_section
                               THEN primary ELSE buffer[j]],
                            total_weight, i + 1, led_idx + leds_for_section)

\* Variant of Section_current: with no section nothing is written.
Section_current_skip(self, buffer) ==
    LET v == validate_buffer(buffer, self.num_leds)
    IN  IF v.tag # "Ok" THEN [res |-> v, buf |-> buffer]
        ELSE IF self.count = 0 THEN [res |-> OkRes, buf |-> buffer]
        ELSE Section_fill(self, buffer, SumWeights(self.sections, self.count), 0, 0)

Section_current(self, buffer) ==
    LET v == validate_buffer(buffer, self.num_leds)
    IN  IF v.tag # "Ok" THEN [res |-> v, buf |-> buffer]
        ELSE IF self.count = 0
        THEN [res |-> OkRes, buf |-> fill_solid(buffer, self.num_leds, Black)]
        ELSE Section_fill(self, buffer, SumWeights(self.sections, self.count), 0, 0)

\* Variant of update: the sections are dropped once they are drawn.
Section_update_cleared(self, buffer) ==
    LET r == Section_current(self, buffer)
    IN  [res |-> r.res, buf |-> r.buf, self |-> Section_clear(self)]

Section_update(self, buffer) ==
    LET r == Section_current(self, buffer)
    IN  [res |-> r.res, buf |-> r.buf, self |-> self]

Section_reset(self) == Section_clear(self)

(***************************************************************************)
(* effect.rs: the Effect trait, dispatched on the kind of the object.      *)
(***************************************************************************)
Kinds == {"rainbow", "pulse", "spinner", "chase", "flash", "progress", "section"}

Effect_new(kind, num_leds) ==
    CASE kind = "rainbow"  -> Rainbow_new(num_leds)
      [] kind = "pulse"    -> Pulse_new(num_leds)
      [] kind = "spinner"  -> Spinner_new(num_leds)
      [] kind = "chase"    -> Chase_new(num_leds)
      [] kind = "flash"    -> Flash_new(num_leds)
      [] kind = "progress" -> Progress_new(num_leds)
      [] kind = "section"  -> Section_new(num_leds)

Effect_with_speed(self, speed) ==
    CASE self.kind = "rainbow" -> Rainbow_with_speed(self, speed)
      [] self.kind = "pulse"   -> Pulse_with_speed(self, speed)
      [] self.kind = "spinner" -> Spinner_with_speed(self, speed)
      [] self.kind = "chase"   -> Chase_with_speed(self, speed)

Effect_current(self, buffer, plat) ==
    CASE self.kind = "rainbow"  -> Rainbow_current(self, buffer)
      [] self.kind = "pulse"    -> Pulse_current(self, buffer, plat)
      [] self.kind = "spinner"  -> Spinner_current(self, buffer, plat)
      [] self.kind = "chase"    -> Chase_current(self, buffer)
      [] self.kind = "flash"    -> Flash_current(self, buffer)
      [] self.kind = "progress" -> Progress_current(self, buffer)
      [] self.kind = "section"  -> Section_current(self, buffer)

Effect_update(self, buffer, plat) ==
    CASE self.kind = "rainbow"  -> Rainbow_update(self, buffer)
      [] self.kind = "pulse"    -> Pulse_update(self, buffer, plat)
      [] self.kind = "spinner"  -> Spinner_update(self, buffer, plat)
      [] self.kind = "chase"    -> Chase_update(self, buffer)
      [] self.kind = "flash"    -> Flash_update(self, buffer)
      [] self.kind = "progress" -> Progress_update(self, buffer)
      [] self.kind = "section"  -> Section_update(self, buffer)

Effect_reset(self) ==
    CASE self.kind = "rainbow"  -> Rainbow_reset(self)
      [] self.kind = "pulse"    -> Pulse_reset(self)
      [] self.kind = "spinner"  -> Spinner_reset(self)
      [] self.kind = "chase"    -> Chase_reset(self)
      [] self.kind = "flash"    -> Flash_reset(self)
      [] self.kind = "progress" -> Progress_reset(self)
      [] self.kind = "section"  -> Section_reset(self)

(***************************************************************************)
(* The caller.  An effect is constructed, configured by a chain of         *)
(* builder calls (each consumes the object; a failed one returns only the  *)
(* error), and then driven by current/update/reset and, for Progress and   *)
(* Section, the external setters.  A panic ends the program.               *)
(***************************************************************************)
Built == stage \in {"config", "run"}

NoArg == <<>>

InitOn(platforms) ==
    /\ platform \in platforms
    /\ eff = NoEffect
    /\ buf = <<>>
    /\ res = [tag |-> "None"]
    /\ op = "init"
    /\ arg = NoArg
    /\ stage = "unbuilt"
    /\ k = 0
    /\ made = NoEffect

\* <Effect>::new(num_leds)
New(kinds, leds) ==
    /\ stage = "unbuilt"
    /\ \E kind \in kinds, n \in leds :
         LET r == Effect_new(kind, n)
         IN  /\ eff' = r.self
             /\ res' = r.res
             /\ arg' = [kind |-> kind, num_leds |-> n]
             /\ stage' = IF r.res.tag = "Ok" THEN "config" ELSE "unbuilt"
             /\ made' = r.self
    /\ op' = "new"
    /\ k' = 0
    /\ UNCHANGED <<platform, buf>>

\* A builder call that cannot fail: one field is replaced.
Configure(kinds, name, field, values) ==
    /\ stage = "config"
    /\ eff.kind \in kinds
    /\ \E v \in values : eff' = [eff EXCEPT ![field] = v] /\ arg' = v
    /\ res' = OkRes
    /\ op' = name
    /\ UNCHANGED <<platform, buf, stage, k, made>>

\* A builder call that validates: on an error the object is gone.
Validated(name, a, r) ==
    /\ eff' = r.self
    /\ res' = r.res
    /\ arg' = a
    /\ stage' = IF r.res.tag = "Ok" THEN "config" ELSE "unbuilt"
    /\ op' = name
    /\ made' = IF r.res.tag = "Ok" THEN made ELSE NoEffect
    /\ UNCHANGED <<platform, buf, k>>

WithSpeed(speeds) ==
    /\ stage = "config"
    /\ eff.kind \in {"rainbow", "pulse", "spinner", "chase"}
    /\ \E s \in speeds : Validated("with_speed", s, Effect_with_speed(eff, s))

WithDuty(ticks) ==
    /\ stage = "config"
    /\ eff.kind = "flash"
    /\ \E on \in ticks, off \in ticks :
         Validated("with_duty", <<on, off>>, Flash_with_duty(eff, on, off))

WithColor(colors) ==
    Configure({"pulse", "spinner", "chase", "flash"}, "with_color", "color", colors)

WithOffColor(colors) == Configure({"flash"}, "with_off_color", "off_color", colors)

WithFillColor(colors) ==
    Configure({"progress"}, "with_fill_color", "fill_color", colors)

WithEmptyColor(colors) ==
    Configure({"progress"}, "with_empty_color", "empty_color", colors)

WithBrightness(levels) ==
    Configure({"rainbow"}, "with_brightness", "brightness", levels)

WithSaturation(levels) ==
    Configure({"rainbow"}, "with_saturation", "saturation", levels)

WithDirection ==
    Configure({"rainbow", "spinner", "chase"}, "with_direction", "direction",
              {"Clockwise", "CounterClockwise"})

WithMinBrightness(levels) ==
    Configure({"pulse"}, "with_min_brightness", "min_brightness", levels)

WithMaxBrightness(levels) ==
    Configure({"pulse"}, "with_max_brightness", "max_brightness", levels)

WithTailLength(lengths) ==
    Configure({"spinner"}, "with_tail_length", "tail_length", lengths)

WithSegmentLength(lengths) ==
    Configure({"chase"}, "with_segment_length", "segment_length", lengths)

\* The caller takes a buffer of len entries, each holding `junk`.
Alloc(extra, junks) ==
    /\ Built
    /\ \E len \in (eff.num_leds - 1)..(eff.num_leds + extra), junk \in junks :
         /\ len >= 0
         /\ buf' = [i \in 1..len |-> junk]
    /\ op' = "alloc"
    /\ arg' = NoArg
    /\ UNCHANGED <<platform, eff, res, stage, k, made>>

Current ==
    /\ Built
    /\ LET r == Effect_current(eff, buf, platform)
       IN  /\ buf' = r.buf
           /\ res' = r.res
           /\ stage' = IF r.res.tag = "Panic" THEN "halted" ELSE "run"
    /\ op' = "current"
    /\ arg' = NoArg
    /\ UNCHANGED <<platform, eff, k, made>>

Update(maxk) ==
    /\ Built
    /\ k < maxk
    /\ LET r == Effect_update(eff, buf, platform)
       IN  /\ eff' = r.self
           /\ buf' = r.buf
           /\ res' = r.res
           /\ stage' = IF r.res.tag = "Panic" THEN "halted" ELSE "run"
           /\ k' = IF r.res.tag = "Ok" THEN k + 1 ELSE k
    /\ op' = "update"
    /\ arg' = NoArg
    /\ UNCHANGED <<platform, made>>

Reset ==
    /\ Built
    /\ eff' = Effect_reset(eff)
    /\ res' = OkRes
    /\ op' = "reset"
    /\ arg' = NoArg
    /\ stage' = "run"
    /\ k' = 0
    /\ UNCHANGED <<platform, buf, made>>

SetProgress(values) ==
    /\ Built
    /\ eff.kind = "progress"
    /\ \E p \in values : eff' = Progress_set_progress(eff, p) /\ arg' = p
    /\ res' = OkRes
    /\ op' = "set_progress"
    /\ stage' = "run"
    /\ UNCHANGED <<platform, buf, k, made>>

SetSections(lists) ==
    /\ Built
    /\ eff.kind = "section"
    /\ \E l \in lists :
         LET r == Section_set_sections(eff, l)
         IN  eff' = r.self /\ res' = r.res /\ arg' = l
    /\ op' = "set_sections"
    /\ stage' = "run"
    /\ UNCHANGED <<platform, buf, k, made>>

Clear ==
    /\ Built
    /\ eff.kind = "section"
    /\ eff' = Section_clear(eff)
    /\ res' = OkRes
    /\ op' = "clear"
    /\ arg' = NoArg
    /\ stage' = "run"
    /\ UNCHANGED <<platform, buf, k, made>>

(***************************************************************************)
(* Inputs of the specification of all seven effects.                       *)
(***************************************************************************)
Platforms == {"debug", "release32"}
LedInputs == (0..MaxN) \cup {MAX_LEDS, MAX_LEDS + 1}
SpeedInputs == {0, 255}
TickInputs == {0, 2}
ColorInputs == {<<200, 100, 50>>}
JunkColors == {<<7, 7, 7>>}
BrightnessInputs == {128}
SaturationInputs == {100}
MinInputs == {200}
MaxInputs == {100}
LengthInputs == {0, 5}
ProgressInputs == {128, 255}
Red == ColorPalette_mono(<<255, 0, 0>>)
Blue == ColorPalette_new(<<0, 0, 255>>, <<1, 2, 3>>, <<4, 5, 6>>)
EntryInputs == {Entry(Red, 1), Entry(Blue, 2)}
SectionLists ==
    {<<>>} \cup {<<a>> : a \in EntryInputs}
           \cup {<<a, b>> : a \in EntryInputs, b \in EntryInputs}
           \cup {[i \in 1..(MAX_SECTIONS + 1) |-> Entry(Red, 1)]}

Init == InitOn(Platforms)

Next ==
    \/ New(Kinds, LedInputs)
    \/ WithSpeed(SpeedInputs)
    \/ WithDuty(TickInputs)
    \/ WithColor(ColorInputs)
    \/ WithOffColor(ColorInputs)
    \/ WithFillColor(ColorInputs)
    \/ WithEmptyColor(ColorInputs)
    \/ WithBrightness(BrightnessInputs)
    \/ WithSaturation(SaturationInputs)
    \/ WithDirection
    \/ WithMinBrightness(MinInputs)
    \/ WithMaxBrightness(MaxInputs)
    \/ WithTailLength(LengthInputs)
    \/ WithSegmentLength(LengthInputs)
    \/ Alloc(ExtraBuf, JunkColors)
    \/ Current
    \/ Update(MaxTicks)
    \/ Reset
    \/ SetProgress(ProgressInputs)
    \/ SetSections(SectionLists)
    \/ Clear

Spec == Init /\ [][Next]_vars

(***************************************************************************)
(* Properties.                                                             *)
(***************************************************************************)
\* The first n pixels of a buffer.
Frame(buffer, n) == SubSeq(buffer, 1, n)

Rendered == op \in {"current", "update"}

\* The effect a caller gets from new(num_leds) and the builder calls that give
\* it the configuration of e.
Fresh(e) ==
    CASE e.kind = "rainbow" ->
           [Rainbow_with_speed(Rainbow_new(e.num_leds).self, e.speed).self EXCEPT
              !.brightness = e.brightness, !.saturation = e.saturation,
              !.direction = e.direction]
      [] e.kind = "pulse" ->
           [Pulse_with_speed(Pulse_new(e.num_leds).self, e.speed).self EXCEPT
              !.color = e.color, !.min_brightness = e.min_brightness,
              !.max_brightness = e.max_brightness]
      [] e.kind = "spinner" ->
           [Spinner_with_speed(Spinner_new(e.num_leds).self, e.speed).self EXCEPT
              !.color = e.color, !.tail_length = e.tail_length,
              !.direction = e.direction]
      [] e.kind = "chase" ->
           [Chase_with_speed(Chase_new(e.num_leds).self, e.speed).self EXCEPT
              !.color = e.color, !.segment_length = e.segment_length,
              !.direction = e.direction]
      [] e.kind = "flash" ->
           [Flash_with_duty(Flash_new(e.num_leds).self, e.on_ticks, e.off_ticks).self
              EXCEPT !.color = e.color, !.off_color = e.off_color]
      [] e.kind = "progress" ->
           [Progress_new(e.num_leds).self EXCEPT
              !.fill_color = e.fill_color, !.empty_color = e.empty_color]
      [] e.kind = "section" -> Section_new(e.num_leds).self

\* C1: for every effect, update() on a buffer shorter than num_leds returns
\* BufferTooSmall{required: num_leds, actual: buffer length} and leaves the
\* effect (phase, position, counter, progress, sections) as it was.
C1_UpdateShortBufferLeavesState ==
    [][(op' = "update" /\ Len(buf) < eff.num_leds)
         => /\ res' = BufferTooSmall(eff.num_leds, Len(buf))
            /\ eff' = eff
            /\ k' = k]_vars

\* A Flash that has advanced and is then updated with too short a buffer.
C1_Witness ==
    /\ op = "update"
    /\ res.tag = "BufferTooSmall"
    /\ eff.kind = "flash"
    /\ eff.counter > 0

\* C2: a successful current() or update() leaves the buffer's length and every
\* entry at index >= num_leds as they were.
C2_OnlyFirstNumLedsWritten ==
    [][(op' \in {"current", "update"} /\ res'.tag = "Ok")
         => /\ Len(buf') = Len(buf)
            /\ \A j \in (eff.num_leds + 1)..Len(buf) : buf'[j] = buf[j]]_vars

\* A Spinner frame in a buffer longer than the ring, the extra entry untouched.
C2_Witness ==
    /\ Rendered
    /\ res.tag = "Ok"
    /\ eff.kind = "spinner"
    /\ Len(buf) > eff.num_leds
    /\ buf[Len(buf)] \in JunkColors
    /\ buf[1] \notin JunkColors

\* C3: reset() never fails, and current() right after reset() returns what
\* current() returns on a freshly constructed effect of the same configuration:
\* the same result and the same first num_leds pixels.
C3_ResetRestoresFirstFrame ==
    [][/\ op' = "reset" => res' = OkRes
       /\ (op = "reset" /\ op' = "current")
            => LET f == Effect_current(Fresh(eff), buf, platform)
               IN  /\ res' = f.res
                   /\ res'.tag = "Ok"
                        => Frame(buf', eff.num_leds) = Frame(f.buf, eff.num_leds)]_vars

\* A Rainbow just reset while the buffer still holds a frame of an advanced
\* phase (it differs from the frame current() will write).
C3_Witness ==
    /\ op = "reset"
    /\ eff.kind = "rainbow"
    /\ Len(buf) >= eff.num_leds
    /\ buf[1] \notin JunkColors
    /\ Frame(Effect_current(eff, buf, platform).buf, eff.num_leds)
         # Frame(buf, eff.num_leds)

\* C4: current() changes no effect state, and a current() right after a
\* current() writes the same first num_leds pixels.
C4_CurrentIdempotent ==
    [][/\ op' = "current" => (eff' = eff /\ k' = k)
       /\ (op = "current" /\ op' = "current" /\ res.tag = "Ok" /\ res'.tag = "Ok")
            => Frame(buf', eff.num_leds) = Frame(buf, eff.num_leds)]_vars

\* A Progress frame with a partially blended pixel, read by current().
C4_Witness ==
    /\ op = "current"
    /\ res.tag = "Ok"
    /\ eff.kind = "progress"
    /\ eff.progress = 128
    /\ eff.num_leds = 2

\* C5: new(num_leds) returns ZeroLeds for 0, TooManyLeds{requested: num_leds,
\* max: 256} above 256 and otherwise an effect of the kind asked for whose
\* num_leds is the argument; no later call changes num_leds.
C5_NewValidatesNumLeds ==
    /\ [](op = "new" =>
            /\ arg.num_leds = 0 => (res = ZeroLeds /\ eff = NoEffect)
            /\ arg.num_leds > 256 =>
                 (res = TooManyLeds(arg.num_leds, 256) /\ eff = NoEffect)
            /\ arg.num_leds \in 1..256 =>
                 (res = OkRes /\ eff.kind = arg.kind /\ eff.num_leds = arg.num_leds))
    /\ [][(eff.kind # "none" /\ eff'.kind # "none")
            => (eff'.kind = eff.kind /\ eff'.num_leds = eff.num_leds)]_vars

\* A Pulse of MAX_LEDS pixels that has been driven.
C5_Witness ==
    /\ eff.kind = "pulse"
    /\ eff.num_leds = MAX_LEDS
    /\ op = "update"
    /\ k > 0

\* C6: with_speed(0) returns ZeroStep and with_duty returns ZeroDuty when either
\* count is 0, so every effect object has speed > 0, on_ticks > 0, off_ticks > 0.
C6_SpeedAndDutyPositive ==
    /\ op = "with_speed" => (arg = 0 <=> res = ZeroStep)
    /\ op = "with_duty" => ((arg[1] = 0 \/ arg[2] = 0) <=> res = ZeroDuty)
    /\ (op \in {"with_speed", "with_duty"} /\ res.tag # "Ok") => eff = NoEffect
    /\ eff.kind \in {"rainbow", "pulse", "spinner", "chase"} => eff.speed > 0
    /\ eff.kind = "flash" => (eff.on_ticks > 0 /\ eff.off_ticks > 0)

\* with_duty refused because only the off count is 0.
C6_Witness ==
    /\ op = "with_duty"
    /\ arg = <<2, 0>>
    /\ res = ZeroDuty

\* C7: SpinnerEffect::current never panics: the tail index expression
\* head + num_leds - i never goes negative, whatever tail_length, so current()
\* and update() return Ok or BufferTooSmall.
C7_SpinnerCurrentNeverPanics ==
    (eff.kind = "spinner" /\ Rendered)
      => /\ res.tag \in {"Ok", "BufferTooSmall"}
         /\ (op = "current" /\ res.tag = "Ok" /\ eff.direction = "Clockwise")
              => \A i \in 1..eff.tail_length :
                   (eff.position % eff.num_leds) + eff.num_leds - i >= 0

\* C8: PulseEffect::current never panics: max_brightness - min_brightness does
\* not underflow for any pair the setters accept, so current() and update()
\* return Ok or BufferTooSmall.
C8_PulseCurrentNeverPanics ==
    (eff.kind = "pulse" /\ Rendered)
      => /\ res.tag \in {"Ok", "BufferTooSmall"}
         /\ (op = "current" /\ res.tag = "Ok")
              => ~Pulse_current_brightness(eff, platform).ovf

(***************************************************************************)
(* A Flash alone, with duty counts up to 255 and enough update() calls for *)
(* the 8-bit counter to go round.  Nothing in flash.rs can overflow, so    *)
(* one build stands for all.                                               *)
(***************************************************************************)
FlashTickInputs == {0, 1, 2, 3, 128, 255}

InitFlash == InitOn({"release32"})

NextFlash ==
    \/ New({"flash"}, {0, 1})
    \/ WithDuty(FlashTickInputs)
    \/ WithColor(ColorInputs)
    \/ Alloc(0, JunkColors)
    \/ Current
    \/ Update(FlashMaxTicks)
    \/ Reset

SpecFlash == InitFlash /\ [][NextFlash]_vars

\* C9: k update() calls after construction or reset(), is_on() is true exactly
\* when (k mod (on_ticks + off_ticks)) < on_ticks.
C9_FlashDutyCycle ==
    (eff.kind = "flash" /\ stage = "run")
      => (Flash_is_on(eff) <=> (k % (eff.on_ticks + eff.off_ticks)) < eff.on_ticks)

\* C10: a successful update() stores (counter + 1) mod (on_ticks + off_ticks) in
\* counter, untruncated, and counter < on_ticks + off_ticks in every state.
C10_FlashCounterUntruncated ==
    /\ [](eff.kind = "flash" => eff.counter < eff.on_ticks + eff.off_ticks)
    /\ [][(op' = "update" /\ res'.tag = "Ok" /\ eff.kind = "flash")
            => eff'.counter
                 = (eff.counter + 1) % (eff.on_ticks + eff.off_ticks)]_vars

(***************************************************************************)
(* SectionEffect on its own: lists of up to MAX_SECTIONS + 1 entries, the  *)
(* entry at position i with a primary color of its own, over rings of      *)
(* 1..SectionMaxN, 8, 10, 12 and MAX_LEDS LEDs.                            *)
(***************************************************************************)
SectionMaxN == 3
SectionMaxTicks == 1

SectionLeds == (1..SectionMaxN) \cup {8, 10, 12, MAX_LEDS}

SectionPalette(i) == ColorPalette_new(<<10 * i, 0, 255>>, <<1, 2, 3>>, <<4, 5, 6>>)

SectionWeights ==
    {<<>>, <<0>>, <<3>>, <<0, 0>>, <<1, 2>>, <<255, 0>>,
     <<1, 1, 1>>, <<1, 2, 1>>, <<0, 0, 0>>, <<0, 255, 1>>,
     <<255, 255, 255, 255, 255, 255, 255, 255>>,
     <<1, 0, 2, 0, 3, 0, 4, 5>>,
     <<0, 0, 0, 0, 0, 0, 0, 0>>,
     <<1, 1, 1, 1, 1, 1, 1, 1, 1>>}

SectionEntryLists ==
    {[i \in 1..Len(w) |-> Entry(SectionPalette(i), w[i])] : w \in SectionWeights}

InitSection == InitOn({"debug"})

NextSection ==
    \/ New({"section"}, SectionLeds)
    \/ Alloc(0, JunkColors)
    \/ Current
    \/ Update(SectionMaxTicks)
    \/ Reset
    \/ SetSections(SectionEntryLists)
    \/ Clear

SpecSection == InitSection /\ [][NextSection]_vars

IsSection == Built /\ eff.kind = "section"

\* The weights and primary colors of the active sections.
ActiveWeights == [i \in 1..eff.count |-> eff.sections[i].weight]

ActivePrimary(i) == eff.sections[i].palette.primary

DistinctPrimaries ==
    \A i, j \in 1..eff.count : i # j => ActivePrimary(i) # ActivePrimary(j)

RECURSIVE SeqSum(_)
SeqSum(q) == IF q = <<>> THEN 0 ELSE Head(q) + SeqSum(Tail(q))

\* C11: for a SectionEffect with 1..8 active sections, a render into a buffer
\* that is long enough succeeds and gives every LED of the ring to exactly one
\* active section, the spans contiguous and in section order, and writes
\* nothing past num_leds: the span lengths sum to num_leds.
C11_SectionSpansPartitionRing ==
    [][(/\ IsSection
        /\ op' \in {"current", "update"}
        /\ eff.count \in 1..MAX_SECTIONS
        /\ DistinctPrimaries
        /\ Len(buf) >= eff.num_leds)
       => /\ res' = OkRes
          /\ Len(buf') = Len(buf)
          /\ \A p \in 1..eff.num_leds :
               Cardinality({i \in 1..eff.count : buf'[p] = ActivePrimary(i)}) = 1
          /\ \A p \in 1..(eff.num_leds - 1) : \A i, j \in 1..eff.count :
               (buf'[p] = ActivePrimary(i) /\ buf'[p + 1] = ActivePrimary(j))
               => i <= j
          /\ \A p \in (eff.num_leds + 1)..Len(buf) : buf'[p] = buf[p]]_vars

\* Three sections rendered on a ring of two LEDs (num_leds < count).
C11_Witness ==
    /\ IsSection /\ Rendered /\ res = OkRes
    /\ eff.count = 3 /\ eff.num_leds = 2
    /\ buf = <<ActivePrimary(3), ActivePrimary(3)>>

\* The span of section i (1-based) as the specification states it: the floor
\* of its share for every section but the last, the rest for the last.
SpecShare(weights, n, i) == (weights[i] * n) \div SeqSum(weights)

SpecStart(weights, n, i) == SeqSum([j \in 1..(i - 1) |-> SpecShare(weights, n, j)])

SpecEnd(weights, n, i) ==
    IF i = Len(weights) THEN n ELSE SpecStart(weights, n, i + 1)

SpecFrame(weights, n) ==
    [p \in 1..n |->
       ActivePrimary(CHOOSE i \in 1..Len(weights) :
                        SpecStart(weights, n, i) < p /\ p <= SpecEnd(weights, n, i))]

Block(len, color) == [p \in 1..len |-> color]

\* C12: with a nonzero total weight every active section but the last is
\* rendered as floor(weight * num_leds / total_weight) LEDs of its primary
\* color and the last takes the remaining LEDs; 1:2:1 over 12 LEDs is 3/6/3
\* and 1:1:1 over 10 LEDs is 3/3/4.
C12_SectionProportionalSpans ==
    (IsSection /\ Rendered /\ res = OkRes /\ eff.count > 0
       /\ SeqSum(ActiveWeights) > 0)
    => /\ Frame(buf, eff.num_leds) = SpecFrame(ActiveWeights, eff.num_leds)
       /\ (ActiveWeights = <<1, 2, 1>> /\ eff.num_leds = 12)
          => Frame(buf, 12) = Block(3, ActivePrimary(1)) \o Block(6, ActivePrimary(2))
                                \o Block(3, ActivePrimary(3))
       /\ (ActiveWeights = <<1, 1, 1>> /\ eff.num_leds = 10)
          => Frame(buf, 10) = Block(3, ActivePrimary(1)) \o Block(3, ActivePrimary(2))
                                \o Block(4, ActivePrimary(3))

C12_Witness ==
    /\ IsSection /\ Rendered /\ res = OkRes
    /\ ActiveWeights = <<1, 1, 1>> /\ eff.num_leds = 10
    /\ buf[7] = ActivePrimary(3)

\* C13: when every active weight is zero the sections count as weight 1: each
\* of the first c - 1 gets floor(num_leds / c) LEDs and the last the rest; two
\* zero-weight sections over 8 LEDs are 4/4.
C13_SectionZeroWeightsEqualSplit ==
    (IsSection /\ Rendered /\ res = OkRes /\ eff.count > 0
       /\ SeqSum(ActiveWeights) = 0)
    => /\ Frame(buf, eff.num_leds)
            = SpecFrame([i \in 1..eff.count |-> 1], eff.num_leds)
       /\ \A i \in 1..(eff.count - 1) :
            Cardinality({p \in 1..eff.num_leds : buf[p] = ActivePrimary(i)})
              = eff.num_leds \div eff.count
       /\ (eff.count = 2 /\ eff.num_leds = 8)
          => Frame(buf, 8) = Block(4, ActivePrimary(1)) \o Block(4, ActivePrimary(2))

C13_Witness ==
    /\ IsSection /\ Rendered /\ res = OkRes
    /\ ActiveWeights = <<0, 0>> /\ eff.num_leds = 8
    /\ buf[4] = ActivePrimary(1) /\ buf[5] = ActivePrimary(2)

\* C14: set_sections with more than 8 entries returns
\* TooManySections{requested: length, max: 8} and leaves entries and count
\* as they were; with at most 8 entries it replaces the first len entries and
\* sets count = len; count <= 8 in every reachable state.
C14_SetSectionsValidatesFirst ==
    /\ [](IsSection => eff.count <= 8)
    /\ [][op' = "set_sections"
          => IF Len(arg') > 8
             THEN /\ res' = TooManySections(Len(arg'), 8)
                  /\ eff' = eff
             ELSE /\ res' = OkRes
                  /\ eff'.count = Len(arg')
                  /\ eff'.num_leds = eff.num_leds
                  /\ \A i \in 1..MAX_SECTIONS :
                       eff'.sections[i] = IF i <= Len(arg') THEN arg'[i]
                                          ELSE eff.sections[i]]_vars

\* A list of nine entries was refused by an effect holding three sections.
C14_Witness ==
    /\ IsSection /\ op = "set_sections"
    /\ res = TooManySections(9, 8)
    /\ eff.count = 3 /\ ActiveWeights = <<1, 2, 1>>

\* C15: whenever count = 0 a render sets the first num_leds pixels to black,
\* whatever the buffer held.
C15_SectionEmptyRendersBlack ==
    [][(/\ IsSection
        /\ op' \in {"current", "update"}
        /\ eff.count = 0
        /\ Len(buf) >= eff.num_leds)
       => /\ res' = OkRes
          /\ Frame(buf', eff.num_leds) = Block(eff.num_leds, Black)]_vars

\* A ring that showed sections was cleared and rendered dark.
C15_Witness ==
    /\ IsSection /\ Rendered /\ res = OkRes
    /\ eff.count = 0 /\ eff.sections[1].weight = 255
    /\ eff.num_leds = 2 /\ buf = <<Black, Black>>

(***************************************************************************)
(* SpinnerEffect on its own, with tails up to the longest a u8 can hold.   *)
(***************************************************************************)
SpinnerMaxN == 3
SpinnerMaxTicks == 2

SpinnerLeds == (1..SpinnerMaxN) \cup {MAX_LEDS}

TailInputs == {0, 1, 3, 254, 255}

InitSpinner == InitOn(Platforms)

NextSpinner ==
    \/ New({"spinner"}, SpinnerLeds)
    \/ WithSpeed({0, 1})
    \/ WithColor(ColorInputs)
    \/ WithTailLength(TailInputs)
    \/ WithDirection
    \/ Alloc(0, JunkColors)
    \/ Current
    \/ Update(SpinnerMaxTicks)
    \/ Reset

SpecSpinner == InitSpinner /\ [][NextSpinner]_vars

IsSpinner == Built /\ eff.kind = "spinner"

\* C16: for every tail_length in 1..=255 the brightness factor
\* 255 * (tail_length + 1 - i) / (tail_length + 1) of tail pixel i is strictly
\* decreasing in i, starts below the head's 255, and is nonzero at the last
\* tail pixel.
C16_SpinnerTailStrictlyFades ==
    (IsSpinner /\ Rendered /\ res = OkRes /\ eff.tail_length >= 1)
    => /\ Spinner_tail_brightness(eff.tail_length, 1) < 255
       /\ \A i \in 2..eff.tail_length :
            Spinner_tail_brightness(eff.tail_length, i)
              < Spinner_tail_brightness(eff.tail_length, i - 1)
       /\ Spinner_tail_brightness(eff.tail_length, eff.tail_length) > 0

\* C17: after a successful current the pixel at index position holds the full
\* configured color, for every num_leds, tail_length and direction.
C17_SpinnerHeadFullColor ==
    (IsSpinner /\ op = "current" /\ res = OkRes)
    => buf[(eff.position % eff.num_leds) + 1] = eff.color

(***************************************************************************)
(* ProgressEffect on its own, over rings of 1..ProgressMaxN and MAX_LEDS   *)
(* LEDs, with progress values at both ends, next to them and in between.   *)
(***************************************************************************)
ProgressMaxN == 4
ProgressMaxTicks == 1

ProgressLeds == (1..ProgressMaxN) \cup {MAX_LEDS}

ProgressValues == {0, 1, 85, 96, 254, 255}

FillColors == {<<255, 0, 0>>, <<200, 100, 50>>}

EmptyColors == {<<0, 0, 255>>}

InitProgress == InitOn({"debug"})

NextProgress ==
    \/ New({"progress"}, ProgressLeds)
    \/ WithFillColor(FillColors)
    \/ WithEmptyColor(EmptyColors)
    \/ Alloc(0, JunkColors)
    \/ Current
    \/ Update(ProgressMaxTicks)
    \/ Reset
    \/ SetProgress(ProgressValues)

SpecProgress == InitProgress /\ [][NextProgress]_vars

IsProgress == Built /\ eff.kind = "progress"

\* C18: for every num_leds and every pair of colors, a render shows all of
\* the first num_leds pixels as empty_color when progress = 0 and all of them
\* as fill_color when progress = 255.
C18_ProgressEndpoints ==
    (IsProgress /\ Rendered /\ res = OkRes)
    => /\ eff.progress = 0
          => Frame(buf, eff.num_leds) = Block(eff.num_leds, eff.empty_color)
       /\ eff.progress = 255
          => Frame(buf, eff.num_leds) = Block(eff.num_leds, eff.fill_color)

C18_Witness ==
    /\ IsProgress /\ Rendered /\ res = OkRes
    /\ eff.progress = 255 /\ eff.num_leds = 3
    /\ eff.fill_color = <<200, 100, 50>> /\ eff.empty_color = <<0, 0, 255>>
    /\ buf = Block(3, <<200, 100, 50>>)

\* A pixel whose channels lie strictly between those of the two colors,
\* wherever the two differ.
StrictlyBetween(pixel, a, b) ==
    \A c \in 1..3 :
      a[c] # b[c] => \/ a[c] < pixel[c] /\ pixel[c] < b[c]
                     \/ b[c] < pixel[c] /\ pixel[c] < a[c]

\* C19: for every progress in 1..=254 and every num_leds a render produces
\* exactly one partially blended pixel, each channel of it strictly between
\* the channels of empty_color and fill_color.
C19_ProgressOneBlendedPixel ==
    (IsProgress /\ Rendered /\ res = OkRes /\ eff.progress \in 1..254
       /\ eff.fill_color # eff.empty_color)
    => LET blended == {p \in 1..eff.num_leds :
                         buf[p] \notin {eff.fill_color, eff.empty_color}}
       IN  /\ Cardinality(blended) = 1
           /\ \A p \in blended :
                StrictlyBetween(buf[p], eff.empty_color, eff.fill_color)

(***************************************************************************)
(* RainbowEffect on a ring of 12 LEDs with the default saturation and      *)
(* brightness, at every speed a u8 can hold and in both directions.        *)
(***************************************************************************)
RainbowMaxTicks == 3

RainbowSpeeds == 0..255

InitRainbow == InitOn({"debug"})

NextRainbow ==
    \/ New({"rainbow"}, {12})
    \/ WithSpeed(RainbowSpeeds)
    \/ WithDirection
    \/ Alloc(0, JunkColors)
    \/ Current
    \/ Update(RainbowMaxTicks)
    \/ Reset

SpecRainbow == InitRainbow /\ [][NextRainbow]_vars

IsRainbow == Built /\ eff.kind = "rainbow"

\* C20: on a 12-LED RainbowEffect with default saturation and brightness, for
\* every speed in 1..=255 and either direction, the frames written by two
\* successive update() calls differ at pixel 0.
C20_RainbowSuccessiveUpdatesDiffer ==
    [][(/\ IsRainbow
        /\ eff.num_leds = 12 /\ eff.saturation = 255 /\ eff.brightness = 255
        /\ op = "update" /\ res = OkRes
        /\ op' = "update" /\ res' = OkRes)
       => buf'[1] # buf[1]]_vars

\* The second of two updates at speed 255 running counter-clockwise.
C20_Witness ==
    /\ IsRainbow /\ op = "update" /\ res = OkRes /\ k = 2
    /\ eff.num_leds = 12 /\ eff.speed = 255 /\ eff.direction = "CounterClockwise"
    /\ eff.hue_offset = 2
    /\ buf[1] = hsv_to_rgb(1, 255, 255)

(***************************************************************************)
(* The pure functions hsv_to_rgb and sine_wave, each applied once to an    *)
(* argument drawn from the whole range of its type.                        *)
(***************************************************************************)
Byte == 0..255

HsvValues == {0, 1, 255}

Value(v) == [tag |-> "Value", val |-> v]

\* hsv_to_rgb(hue, saturation, value)
CallHsv(hues, saturations, values) ==
    /\ op = "init"
    /\ \E h \in hues, s \in saturations, v \in values :
         /\ arg' = <<h, s, v>>
         /\ res' = Value(hsv_to_rgb(h, s, v))
    /\ op' = "hsv_to_rgb"
    /\ UNCHANGED <<platform, eff, buf, stage, k, made>>

\* sine_wave(phase)
CallSine(phases) ==
    /\ op = "init"
    /\ \E phase \in phases :
         /\ arg' = phase
         /\ res' = Value(sine_wave(phase))
    /\ op' = "sine_wave"
    /\ UNCHANGED <<platform, eff, buf, stage, k, made>>

InitUtil == InitOn({"debug"})

NextUtil ==
    \/ CallHsv(Byte, Byte, HsvValues)
    \/ CallSine(Byte)

SpecUtil == InitUtil /\ [][NextUtil]_vars

\* C21: hsv_to_rgb(hue, saturation, 0) is black for every hue and every
\* saturation in 0..=255.
C21_HsvValueZeroIsBlack ==
    (op = "hsv_to_rgb" /\ arg[3] = 0) => res = Value(Black)

C21_Witness ==
    op = "hsv_to_rgb" /\ arg = <<200, 255, 0>> /\ res = Value(<<0, 0, 0>>)

\* C22: sine_wave is 0 at phase 0, non-decreasing over phases 0..=113,
\* 255 at phases 113..=115, non-increasing over phases 115..=239, and 0 for
\* every phase in 240..=255.
C22_SineShape ==
    (op = "sine_wave")
    => /\ arg = 0 => res.val = 0
       /\ arg \in 0..112 => res.val <= sine_wave(arg + 1)
       /\ arg \in 113..115 => res.val = 255
       /\ arg \in 115..238 => res.val >= sine_wave(arg + 1)
       /\ arg \in 240..255 => res.val = 0

C22_Witness == op = "sine_wave" /\ arg = 114 /\ res = Value(255)

PulseMaxTicks == 256

PulseSpeeds == {0, 1, 85}

PulseMins == {50}

PulseMaxs == {40, 100}

InitPulse == InitOn({"debug"})

NextPulse ==
    \/ New({"pulse"}, {2})
    \/ WithSpeed(PulseSpeeds)
    \/ WithColor(ColorInputs)
    \/ WithMinBrightness(PulseMins)
    \/ WithMaxBrightness(PulseMaxs)
    \/ Alloc(0, JunkColors)
    \/ Current
    \/ Update(PulseMaxTicks)
    \/ Reset

SpecPulse == InitPulse /\ [][NextPulse]_vars

IsPulse == Built /\ eff.kind = "pulse"

\* min + sine_wave(phase) * (max - min) / 255, in unbounded integers.
SpecBrightness(e) ==
    e.min_brightness
        + (sine_wave(e.phase) * (e.max_brightness - e.min_brightness)) \div 255

\* C24: for a PulseEffect with min_brightness <= max_brightness, a frame
\* rendered at any phase that update() reaches uses the brightness
\* min + sine_wave(phase) * (max - min) / 255, which lies in [min, max], and
\* every one of the first num_leds pixels is scale_brightness(color, brightness).
C24_PulseBrightnessInRange ==
    [][(/\ IsPulse
        /\ eff.min_brightness <= eff.max_brightness
        /\ op' \in {"current", "update"} /\ res' = OkRes)
       => /\ SpecBrightness(eff) \in eff.min_brightness..eff.max_brightness
          /\ \A i \in 1..eff.num_leds :
               buf'[i] = scale_brightness(eff.color, SpecBrightness(eff))]_vars

\* The frame written by the 114th update at speed 1, at the crest of the wave.
C24_Witness ==
    /\ IsPulse /\ op = "update" /\ res = OkRes /\ k = 114
    /\ eff.speed = 1 /\ eff.phase = 114
    /\ eff.min_brightness = 50 /\ eff.max_brightness = 100
    /\ eff.color = <<200, 100, 50>>
    /\ buf = <<scale_brightness(<<200, 100, 50>>, 100),
               scale_brightness(<<200, 100, 50>>, 100)>>

(***************************************************************************)
(* led-effects/src/lib.rs                                                  *)
(***************************************************************************)
DEFAULT_BRIGHTNESS_THRESHOLD == 10

InvalidRange(min, max) == [tag |-> "InvalidRange", min |-> min, max |-> max]

PulseZeroStep == [tag |-> "PulseZeroStep"]

Max(a, b) == IF a >= b THEN a ELSE b

max_channel_brightness(color) == Max(Max(color[1], color[2]), color[3])

\* Variant of exceeds_threshold: equality counts as on.
exceeds_threshold_inclusive(color, threshold) ==
    max_channel_brightness(color) >= threshold

exceeds_threshold(color, threshold) == max_channel_brightness(color) > threshold

saturating_add(a, b) == IF a + b > 255 THEN 255 ELSE a + b

saturating_sub(a, b) == IF a - b < 0 THEN 0 ELSE a - b

PulseEffect_new ==
    [kind |-> "led_pulse", brightness |-> 0, increasing |-> TRUE,
     min_brightness |-> 2, max_brightness |-> 30, step |-> 2]

PulseEffect_with_range(min, max, step) ==
    IF min >= max THEN [res |-> InvalidRange(min, max), self |-> NoEffect]
    ELSE IF step = 0 THEN [res |-> PulseZeroStep, self |-> NoEffect]
    ELSE [res |-> OkRes,
          self |-> [kind |-> "led_pulse", brightness |-> min, increasing |-> TRUE,
                    min_brightness |-> min, max_brightness |-> max, step |-> step]]

\* Variant of PulseEffect::update: the turn at the top tests brightness with >.
PulseEffect_update_strict(self, rgb) ==
    LET color == <<U8(U16(rgb[1] * self.brightness) \div 255),
                   U8(U16(rgb[2] * self.brightness) \div 255),
                   U8(U16(rgb[3] * self.brightness) \div 255)>>
        next ==
            IF self.increasing
            THEN IF self.brightness > self.max_brightness
                 THEN [self EXCEPT !.increasing = FALSE]
                 ELSE [self EXCEPT
                         !.brightness = saturating_add(self.brightness, self.step)]
            ELSE IF self.brightness <= self.min_brightness
                 THEN [self EXCEPT !.increasing = TRUE]
                 ELSE [self EXCEPT
                         !.brightness = saturating_sub(self.brightness, self.step)]
    IN  [color |-> color, self |-> next]

PulseEffect_update(self, rgb) ==
    LET color == <<U8(U16(rgb[1] * self.brightness) \div 255),
                   U8(U16(rgb[2] * self.brightness) \div 255),
                   U8(U16(rgb[3] * self.brightness) \div 255)>>
        next ==
            IF self.increasing
            THEN IF self.brightness >= self.max_brightness
                 THEN [self EXCEPT !.increasing = FALSE]
                 ELSE [self EXCEPT
                         !.brightness = saturating_add(self.brightness, self.step)]
            ELSE IF self.brightness <= self.min_brightness
                 THEN [self EXCEPT !.increasing = TRUE]
                 ELSE [self EXCEPT
                         !.brightness = saturating_sub(self.brightness, self.step)]
    IN  [color |-> color, self |-> next]

PulseEffect_brightness(self) == self.brightness

PulseEffect_reset(self) ==
    [self EXCEPT !.brightness = self.min_brightness, !.increasing = TRUE]

(***************************************************************************)
(* led-effects/src/simple_led.rs, over a pin whose set_high and set_low    *)
(* succeed (Error = Infallible) and whose level before the first call is   *)
(* either one.                                                             *)
(***************************************************************************)
SimpleLed_new(pin) ==
    [kind |-> "simple_led", pin |-> pin, threshold |-> DEFAULT_BRIGHTNESS_THRESHOLD]

SimpleLed_with_threshold(pin, threshold) ==
    [kind |-> "simple_led", pin |-> pin, threshold |-> threshold]

SimpleLed_set_color(self, color) ==
    IF exceeds_threshold(color, self.threshold)
    THEN [res |-> OkRes, self |-> [self EXCEPT !.pin = "high"]]
    ELSE [res |-> OkRes, self |-> [self EXCEPT !.pin = "low"]]

(***************************************************************************)
(* The led-effects crate driven by a caller.                               *)
(***************************************************************************)
LedMaxTicks == 24

PinLevels == {"low", "high"}

RangeMins == {0, 2, 250}

RangeMaxs == {2, 10, 255}

RangeSteps == {0, 1, 3, 100}

Thresholds == {0, 10, 255}

Channels == {0, 9, 10, 11, 255}

BaseColors == {<<255, 128, 3>>}

IsLedPulse == stage = "run" /\ eff.kind = "led_pulse"

IsSimpleLed == stage = "run" /\ eff.kind = "simple_led"

\* A constructor returned: the caller holds the object.
Constructed(name, a, r) ==
    /\ stage = "unbuilt"
    /\ eff' = r.self
    /\ made' = r.self
    /\ res' = r.res
    /\ arg' = a
    /\ stage' = IF r.res.tag = "Ok" THEN "run" ELSE "unbuilt"
    /\ op' = name
    /\ k' = 0
    /\ UNCHANGED <<platform, buf>>

PulseNew == Constructed("new", NoArg, [res |-> OkRes, self |-> PulseEffect_new])

PulseWithRange(mins, maxs, steps) ==
    \E min \in mins, max \in maxs, step \in steps :
        Constructed("with_range", <<min, max, step>>,
                    PulseEffect_with_range(min, max, step))

PulseUpdate(maxk, colors) ==
    /\ IsLedPulse
    /\ k < maxk
    /\ \E rgb \in colors :
         LET r == PulseEffect_update(eff, rgb)
         IN  /\ eff' = r.self
             /\ res' = Value(r.color)
             /\ arg' = rgb
    /\ op' = "update"
    /\ k' = k + 1
    /\ UNCHANGED <<platform, buf, stage, made>>

PulseBrightness ==
    /\ IsLedPulse
    /\ res' = Value(PulseEffect_brightness(eff))
    /\ op' = "brightness"
    /\ arg' = NoArg
    /\ UNCHANGED <<platform, eff, buf, stage, k, made>>

PulseReset ==
    /\ IsLedPulse
    /\ eff' = PulseEffect_reset(eff)
    /\ res' = OkRes
    /\ op' = "reset"
    /\ arg' = NoArg
    /\ k' = 0
    /\ UNCHANGED <<platform, buf, stage, made>>

LedNew(pins) ==
    \E pin \in pins :
        Constructed("new", pin, [res |-> OkRes, self |-> SimpleLed_new(pin)])

LedWithThreshold(pins, thresholds) ==
    \E pin \in pins, threshold \in thresholds :
        Constructed("with_threshold", <<pin, threshold>>,
                    [res |-> OkRes, self |-> SimpleLed_with_threshold(pin, threshold)])

SetColor(channels) ==
    /\ IsSimpleLed
    /\ \E r \in channels, g \in channels, b \in channels :
         LET c == SimpleLed_set_color(eff, <<r, g, b>>)
         IN  /\ eff' = c.self
             /\ res' = c.res
             /\ arg' = <<r, g, b>>
    /\ op' = "set_color"
    /\ UNCHANGED <<platform, buf, stage, k, made>>

InitLed == InitOn({"debug"})

NextLed ==
    \/ PulseNew
    \/ PulseWithRange(RangeMins, RangeMaxs, RangeSteps)
    \/ PulseUpdate(LedMaxTicks, BaseColors)
    \/ PulseBrightness
    \/ PulseReset
    \/ LedNew(PinLevels)
    \/ LedWithThreshold(PinLevels, Thresholds)
    \/ SetColor(Channels)

SpecLed == InitLed /\ [][NextLed]_vars

\* C25: for a PulseEffect built by with_range(min, max, step), brightness()
\* returns a value within [min, max] after any number of update() calls.
C25_LedPulseWithinRange ==
    (IsLedPulse /\ made # PulseEffect_new /\ op = "brightness")
    => res.val \in eff.min_brightness..eff.max_brightness

\* C26: after any number of update() calls, reset() leaves (brightness,
\* increasing) equal to what the constructor returned, for new() and for
\* with_range().
C26_LedPulseResetRestores ==
    (IsLedPulse /\ op = "reset")
    => /\ eff.brightness = made.brightness
       /\ eff.increasing = made.increasing

\* C27: after SimpleLed::set_color(color) the pin is high if and only if the
\* largest channel of color is strictly greater than the threshold (10 for
\* SimpleLed::new), whatever the level of the pin before the call.
C27_SimpleLedThreshold ==
    [][(IsSimpleLed /\ op' = "set_color")
       => /\ eff'.pin = "high" <=> Max(Max(arg'[1], arg'[2]), arg'[3]) > eff.threshold
          /\ eff'.pin \in PinLevels
          /\ eff'.threshold = eff.threshold
          /\ made.threshold = eff.threshold]_vars

\* A color whose largest channel equals the default threshold has driven low
\* a pin that was high when SimpleLed::new took it.
C27_Witness ==
    /\ IsSimpleLed /\ op = "set_color" /\ arg = <<10, 9, 10>>
    /\ made = SimpleLed_new("high")
    /\ eff.threshold = 10 /\ eff.pin = "low"

(***************************************************************************)
(* Two buffers of one length with different contents.                      *)
(***************************************************************************)
\* A buffer as long as `buffer` that differs from it in every channel of
\* every pixel.
OtherBuffer(buffer) ==
    [i \in 1..Len(buffer) |->
        <<255 - buffer[i][1], 255 - buffer[i][2], 255 - buffer[i][3]>>]

\* C28: a rendered frame does not depend on what the buffer held before the
\* call: for every effect and state, a successful current() (alone or inside
\* update()) on the caller's buffer and on a buffer of the same length with
\* different contents leaves the same first num_leds pixels in both.
C28_FrameIgnoresBufferContents ==
    [][(Built /\ op' \in {"current", "update"} /\ res' = OkRes)
       => LET other == Effect_current(eff, OtherBuffer(buf), platform)
          IN  /\ other.res = OkRes
              /\ OtherBuffer(buf) # buf \/ Len(buf) = 0
              /\ Frame(other.buf, eff.num_leds) = Frame(buf', eff.num_leds)]_vars

\* An empty chase segment rendered into a buffer that held junk or a frame:
\* the whole ring is black.
C28_Witness ==
    /\ Built /\ eff.kind = "chase" /\ eff.segment_length = 0 /\ eff.num_leds = 2
    /\ op = "current" /\ res = OkRes
    /\ Frame(buf, 2) = <<Black, Black>> /\ Len(buf) = 3

(***************************************************************************)
(* SpinnerEffect and ChaseEffect going round rings from one LED to         *)
(* MAX_LEDS, at speeds below, at and above the ring size.                  *)
(***************************************************************************)
RingMaxN == 3

RingMaxTicks == 3

RingLeds == (1..RingMaxN) \cup {5, 255, 256}

RingSpeeds == {0, 1, 2, 3, 4, 6, 7, 254, 255}

InitRing == InitOn(Platforms)

NextRing ==
    \/ New({"spinner", "chase"}, RingLeds)
    \/ WithSpeed(RingSpeeds)
    \/ WithDirection
    \/ Alloc(0, JunkColors)
    \/ Current
    \/ Update(RingMaxTicks)
    \/ Reset

SpecRing == InitRing /\ [][NextRing]_vars

IsRing == Built /\ eff.kind \in {"spinner", "chase"}

\* a mod n with a result in 0..n-1, whatever the sign of a.
ModN(a, n) == ((a % n) + n) % n

\* C29: each successful update() of a Spinner or a Chase sets position to
\* (position + speed) mod num_leds when Clockwise and to the non-negative
\* (position - speed) mod num_leds when CounterClockwise, and position <
\* num_leds holds in every state, for ring sizes up to 256 and speeds up to 255,
\* speeds above num_leds included.
C29_RingAdvance ==
    [][/\ (stage' \in {"config", "run"} /\ eff'.kind \in {"spinner", "chase"})
          => eff'.position \in 0..(eff'.num_leds - 1)
       /\ (IsRing /\ op' = "update" /\ res' = OkRes)
          => eff'.position =
               IF eff.direction = "Clockwise"
               THEN ModN(eff.position + eff.speed, eff.num_leds)
               ELSE ModN(eff.position - eff.speed, eff.num_leds)]_vars

\* The third step of a Chase running counter-clockwise at speed 254 round 255
\* LEDs: 0, 1, 2, 3.
C29_Witness ==
    /\ IsRing /\ eff.kind = "chase" /\ op = "update" /\ res = OkRes /\ k = 3
    /\ eff.num_leds = 255 /\ eff.speed = 254 /\ eff.direction = "CounterClockwise"
    /\ eff.position = 3

\* The position a Chase with the fields of e holds after update().
ChaseStep(e) == advance_position(e.position, e.speed, e.num_leds, e.direction)

\* The position a Spinner with the fields of e holds after update().
SpinnerStep(e) ==
    Spinner_advance([position |-> e.position, speed |-> e.speed,
                     num_leds |-> e.num_leds, direction |-> e.direction]).position

\* C30: a Chase and a Spinner with the same num_leds, speed and direction
\* advance identically: from every position either of them reaches from 0, a
\* successful update() sets the position both rules give, so that the two,
\* stepped side by side, hold the same position after every step.
C30_ChaseSpinnerSamePosition ==
    [][(IsRing /\ op' = "update" /\ res' = OkRes)
       => /\ eff'.position = ChaseStep(eff)
          /\ eff'.position = SpinnerStep(eff)]_vars

\* The second step of a Spinner running clockwise at speed 254 round 255 LEDs:
\* 0, 254, 253.
C30_Witness ==
    /\ IsRing /\ eff.kind = "spinner" /\ op = "update" /\ res = OkRes /\ k = 2
    /\ eff.num_leds = 255 /\ eff.speed = 254 /\ eff.direction = "Clockwise"
    /\ eff.position = 253
    /\ ChaseStep([eff EXCEPT !.position = 254]) = 253

(***************************************************************************)
(* SpinnerEffect and ChaseEffect stepped through whole laps of the ring,   *)
(* the largest ring included.                                              *)
(***************************************************************************)
LapMaxTicks == 256

LapLeds == {1, 2, 3, 8, 256}

LapSpeeds == {3, 254}

InitLap == InitOn(Platforms)

NextLap ==
    \/ New({"spinner", "chase"}, LapLeds)
    \/ WithSpeed(LapSpeeds)
    \/ WithDirection
    \/ Alloc(0, JunkColors)
    \/ Update(LapMaxTicks)
    \/ Reset

SpecLap == InitLap /\ [][NextLap]_vars

\* C31: for a Spinner and a Chase, at every speed and in either direction,
\* after exactly num_leds successful update() calls the position is the one
\* the lap started from (0, where new() and reset() leave it).
C31_FullLapReturnsToStart ==
    (IsRing /\ k = eff.num_leds) => eff.position = 0

\* Eight updates at the default speed 1 on 8 LEDs return the head to LED 0.
C31_Witness ==
    /\ IsRing /\ eff.kind = "spinner" /\ eff.num_leds = 8 /\ eff.speed = 1
    /\ op = "update" /\ res = OkRes /\ k = 8 /\ eff.position = 0

(***************************************************************************)
(* A ChaseEffect with segments shorter than, as long as and longer than    *)
(* the ring, at every position of the ring.                                *)
(***************************************************************************)
ChaseMaxN == 4

ChaseMaxTicks == 3

ChaseLeds == 1..ChaseMaxN

SegmentInputs == {0, 1, 2, 4, 255}

InitChase == InitOn({"debug"})

NextChase ==
    \/ New({"chase"}, ChaseLeds)
    \/ WithSpeed({0, 1})
    \/ WithColor(ColorInputs)
    \/ WithSegmentLength(SegmentInputs)
    \/ WithDirection
    \/ Alloc(ExtraBuf, JunkColors)
    \/ Current
    \/ Update(ChaseMaxTicks)
    \/ Reset

SpecChase == InitChase /\ [][NextChase]_vars

IsChase == Built /\ eff.kind = "chase"

\* The indices (position + i) mod num_leds for i in 0..segment_length.
SpecSegment(e) ==
    {j \in 0..(e.num_leds - 1) :
        \E i \in 0..(e.segment_length - 1) : (e.position + i) % e.num_leds = j}

\* C32: after a successful ChaseEffect::current, within the first num_leds
\* pixels exactly the indices (position + i) mod num_leds, i in
\* 0..segment_length, hold the configured color and every other index is
\* black; min(segment_length, num_leds) LEDs are lit, also when the segment
\* wraps past the end of the ring.
C32_ChaseSegment ==
    [][(IsChase /\ op' = "current" /\ res' = OkRes)
       => /\ \A j \in 0..(eff.num_leds - 1) :
               buf'[j + 1] = IF j \in SpecSegment(eff) THEN eff.color ELSE Black
          /\ Cardinality({j \in 0..(eff.num_leds - 1) : buf'[j + 1] = eff.color})
               = IF eff.segment_length < eff.num_leds
                 THEN eff.segment_length ELSE eff.num_leds]_vars

\* A segment of two on four LEDs at position 3 wraps: LEDs 3 and 0 are lit.
C32_Witness ==
    /\ IsChase /\ op = "current" /\ res = OkRes
    /\ eff.num_leds = 4 /\ eff.segment_length = 2 /\ eff.position = 3
    /\ eff.color = <<200, 100, 50>>
    /\ Frame(buf, 4) = <<<<200, 100, 50>>, Black, Black, <<200, 100, 50>>>>

(***************************************************************************)
(* A SpinnerEffect whose tail is shorter than the ring, up to the longest  *)
(* tail on the largest ring, and one whose tail is not.                    *)
(***************************************************************************)
TailMaxTicks == 2

TailLeds == {1, 2, 4, 5, 256}

TailLengths == {0, 1, 3, 4, 255}

InitTail == InitOn(Platforms)

NextTail ==
    \/ New({"spinner"}, TailLeds)
    \/ WithSpeed({0, 2})
    \/ WithColor(ColorInputs)
    \/ WithTailLength(TailLengths)
    \/ WithDirection
    \/ Alloc(0, JunkColors)
    \/ Current
    \/ Update(TailMaxTicks)
    \/ Reset

SpecTail == InitTail /\ [][NextTail]_vars

\* Where tail pixel i sits: behind the head, against the direction of travel.
SpecTailPos(e, i) ==
    IF e.direction = "Clockwise"
    THEN ModN(e.position - i, e.num_leds)
    ELSE ModN(e.position + i, e.num_leds)

\* What tail pixel i holds.
SpecTailColor(e, i) ==
    scale_brightness(e.color,
                     (255 * (e.tail_length + 1 - i)) \div (e.tail_length + 1))

\* C33: after a successful SpinnerEffect::current with tail_length < num_leds,
\* the head pixel holds the color, tail pixel i (1..=tail_length) sits at
\* (position - i) mod num_leds when Clockwise and (position + i) mod num_leds
\* when CounterClockwise and holds
\* scale_brightness(color, 255*(tail_length+1-i)/(tail_length+1)), and every
\* other pixel of the first num_leds is black.
C33_SpinnerTailBehindHead ==
    [][(IsSpinner /\ eff.tail_length < eff.num_leds
        /\ op' = "current" /\ res' = OkRes)
       => \A j \in 0..(eff.num_leds - 1) :
            LET steps == {i \in 1..eff.tail_length : SpecTailPos(eff, i) = j}
            IN  /\ Cardinality(steps) <= 1
                /\ j = eff.position => steps = {}
                /\ buf'[j + 1] =
                     IF j = eff.position THEN eff.color
                     ELSE IF steps = {} THEN Black
                     ELSE SpecTailColor(eff, CHOOSE i \in steps : TRUE)]_vars

\* A clockwise spinner on 5 LEDs with a tail of 3, two steps of speed 2 on:
\* head at 4, tail at 3, 2 and 1, LED 0 dark.
C33_Witness ==
    /\ IsSpinner /\ op = "current" /\ res = OkRes
    /\ eff.num_leds = 5 /\ eff.tail_length = 3 /\ eff.position = 4
    /\ eff.direction = "Clockwise" /\ eff.color = <<200, 100, 50>>
    /\ buf = <<Black,
               scale_brightness(<<200, 100, 50>>, 63),
               scale_brightness(<<200, 100, 50>>, 127),
               scale_brightness(<<200, 100, 50>>, 191),
               <<200, 100, 50>>>>

(***************************************************************************)
(* A RainbowEffect on rings from one LED to MAX_LEDS, its hue offset       *)
(* followed over the first updates after new() and reset().                *)
(***************************************************************************)
HueMaxTicks == 3

HueLeds == {1, 3, 12, 255, 256}

HueSpeeds == {0, 7, 128, 255}

HueBrightnesses == {128}

HueSaturations == {0, 200}

InitHue == InitOn({"debug"})

NextHue ==
    \/ New({"rainbow"}, HueLeds)
    \/ WithSpeed(HueSpeeds)
    \/ WithBrightness(HueBrightnesses)
    \/ WithSaturation(HueSaturations)
    \/ WithDirection
    \/ Alloc(0, JunkColors)
    \/ Current
    \/ Update(HueMaxTicks)
    \/ Reset

SpecHue == InitHue /\ [][NextHue]_vars

\* floor(i * 256 / num_leds)
SpecLedHue(e, i) == (i * 256) \div e.num_leds

\* C34: after k successful update() calls from a fresh or reset RainbowEffect,
\* hue_offset is (k * speed) mod 256 when Clockwise and (-k * speed) mod 256
\* when CounterClockwise; pixel i of a frame is
\* hsv_to_rgb((floor(i*256/num_leds) + hue_offset) mod 256, saturation,
\* brightness), and floor(i*256/num_leds) < 256 for every i < num_leds.
C34_RainbowHueOffsetAndFrame ==
    [][/\ (stage' \in {"config", "run"} /\ eff'.kind = "rainbow")
          => eff'.hue_offset =
               IF eff'.direction = "Clockwise"
               THEN ModN(k' * eff'.speed, 256)
               ELSE ModN(0 - k' * eff'.speed, 256)
       /\ (IsRainbow /\ op' \in {"current", "update"} /\ res' = OkRes)
          => \A i \in 0..(eff.num_leds - 1) :
               /\ SpecLedHue(eff, i) < 256
               /\ buf'[i + 1] =
                    hsv_to_rgb(ModN(SpecLedHue(eff, i) + eff.hue_offset, 256),
                               eff.saturation, eff.brightness)]_vars

\* The third update of a counter-clockwise rainbow at speed 7 on 255 LEDs: the
\* frame was drawn at offset 242 and the offset is now 235.
C34_Witness ==
    /\ IsRainbow /\ op = "update" /\ res = OkRes /\ k = 3
    /\ eff.num_leds = 255 /\ eff.speed = 7 /\ eff.direction = "CounterClockwise"
    /\ eff.saturation = 200 /\ eff.brightness = 128
    /\ eff.hue_offset = 235
    /\ buf[255] = hsv_to_rgb(ModN(254 + 242, 256), 200, 128)

\* C35: ProgressEffect and SectionEffect are not self-advancing: update()
\* leaves the object (progress, sections, count) unchanged and returns and
\* writes exactly what current() returns and writes in the same state, so an
\* update() that follows an update() renders the same frame.
C35_UpdateIsCurrent ==
    [][(Built /\ eff.kind \in {"progress", "section"} /\ op' = "update")
       => LET c == Effect_current(eff, buf, platform)
          IN  /\ eff' = eff
              /\ res' = c.res
              /\ buf' = c.buf
              /\ (op = "update" /\ res = OkRes)
                 => (res' = OkRes /\ buf' = buf)]_vars

\* The second of two update() calls on a SectionEffect that holds sections.
C35_Witness ==
    /\ IsSection /\ op = "update" /\ res = OkRes /\ k = 2
    /\ eff.count > 0 /\ eff.num_leds = 2
    /\ buf[1] = ActivePrimary(1)

\* floor(progress * num_leds / 255)
SpecFullLeds(e) == (e.progress * e.num_leds) \div 255

\* The number of the first n pixels of a frame that hold color.
FillCount(frame, n, color) == Cardinality({i \in 1..n : frame[i] = color})

\* C36: ProgressEffect::current renders the pixels below
\* full_leds = floor(progress * num_leds / 255) as fill_color, the pixel at
\* index full_leds (when full_leds < num_leds) as
\* lerp_color(empty_color, fill_color, (progress * num_leds) mod 255) and the
\* rest as empty_color; a render at a greater progress shows at least as many
\* fully filled pixels.
C36_ProgressFrame ==
    [][(IsProgress /\ op' = "current" /\ res' = OkRes)
       => /\ \A i \in 0..(eff.num_leds - 1) :
               buf'[i + 1] =
                 IF i < SpecFullLeds(eff) THEN eff.fill_color
                 ELSE IF i = SpecFullLeds(eff)
                 THEN lerp_color(eff.empty_color, eff.fill_color,
                                 (eff.progress * eff.num_leds) % 255)
                 ELSE eff.empty_color
          /\ \A q \in Byte :
               q >= eff.progress
               => FillCount(Progress_current([eff EXCEPT !.progress = q], buf).buf,
                            eff.num_leds, eff.fill_color)
                    >= FillCount(buf', eff.num_leds, eff.fill_color)]_vars

\* Progress 96 on 4 LEDs: one full pixel, the second blended at 129, two empty.
C36_Witness ==
    /\ IsProgress /\ op = "current" /\ res = OkRes
    /\ eff.num_leds = 4 /\ eff.progress = 96
    /\ eff.fill_color = <<255, 0, 0>> /\ eff.empty_color = <<0, 0, 255>>
    /\ buf = <<<<255, 0, 0>>,
               lerp_color(<<0, 0, 255>>, <<255, 0, 0>>, 129),
               <<0, 0, 255>>, <<0, 0, 255>>>>

(***************************************************************************)
(* A SectionEffect given lists of different lengths one after another, so  *)
(* that slots at and above count keep entries of earlier lists, with       *)
(* zero-weight sections at the start, in the middle and at the end.        *)
(***************************************************************************)
SlotMaxN == 3

SlotMaxTicks == 1

SlotLeds == (1..SlotMaxN) \cup {5}

SlotWeights ==
    {<<>>, <<2>>, <<0, 0>>, <<1, 1, 0>>, <<0, 1, 1>>, <<1, 0, 1>>, <<4, 0>>,
     <<3, 0, 0, 0, 0, 0, 0, 9>>,
     <<1, 1, 1, 1, 1, 1, 1, 1, 1>>}

SlotEntryLists ==
    {[i \in 1..Len(w) |-> Entry(SectionPalette(i), w[i])] : w \in SlotWeights}

InitSlot == InitOn({"debug"})

NextSlot ==
    \/ New({"section"}, SlotLeds)
    \/ Alloc(0, JunkColors)
    \/ Current
    \/ Update(SlotMaxTicks)
    \/ Reset
    \/ SetSections(SlotEntryLists)
    \/ Clear

SpecSlot == InitSlot /\ [][NextSlot]_vars

\* The entries of e below count.
ActiveEntries(e) == [i \in 1..e.count |-> e.sections[i]]

\* e with every slot at or above count overwritten by entry.
Scrubbed(e, entry) ==
    [e EXCEPT !.sections = [i \in 1..MAX_SECTIONS |->
                              IF i <= e.count THEN e.sections[i] ELSE entry]]

\* An entry that no list holds.
OddEntry == Entry(ColorPalette_mono(<<9, 9, 9>>), 77)

\* C37: stale section entries are never visible.  The active entries are those
\* of the most recent successful set_sections call (none after clear() and
\* reset()), no other call changes them, and the frame current() renders is
\* the one rendered with every slot at index >= count overwritten.
C37_StaleEntriesInvisible ==
    [][IsSection
       => /\ (op' = "set_sections" /\ res' = OkRes)
             => ActiveEntries(eff') = arg'
          /\ (op' = "set_sections" /\ res' # OkRes)
             => ActiveEntries(eff') = ActiveEntries(eff)
          /\ op' \in {"clear", "reset"} => ActiveEntries(eff') = <<>>
          /\ op' \in {"current", "update", "alloc"}
             => ActiveEntries(eff') = ActiveEntries(eff)
          /\ op' = "current"
             => LET stored == Section_current(eff, buf)
                    odd == Section_current(Scrubbed(eff, OddEntry), buf)
                    fresh == Section_current(
                                 Scrubbed(eff, Entry(ColorPalette_mono(Black), 0)),
                                 buf)
                IN  /\ res' = stored.res /\ buf' = stored.buf
                    /\ odd = stored
                    /\ fresh = stored]_vars

\* One section rendered while slots 2..8 still hold the entries of a list of
\* eight: the whole ring has the color of section 1.
C37_Witness ==
    /\ IsSection /\ op = "current" /\ res = OkRes
    /\ eff.count = 1 /\ eff.sections[1].weight = 2
    /\ eff.sections[8].weight = 9 /\ eff.num_leds = 5
    /\ Frame(buf, 5) = Block(5, ActivePrimary(1))

\* The number of the first num_leds pixels of frame that hold the primary
\* color of active section i of e.
LedsOf(e, frame, i) ==
    FillCount(frame, e.num_leds, e.sections[i].palette.primary)

\* The total weight of the active sections of e.
ActiveTotal(e) == SeqSum([i \in 1..e.count |-> e.sections[i].weight])

\* The LEDs the sections before the last take: the sum of
\* floor(weight * num_leds / total) over them.
RECURSIVE SharesBefore(_, _)
SharesBefore(e, i) ==
    IF i <= 1 THEN 0
    ELSE SharesBefore(e, i - 1)
           + (e.sections[i - 1].weight * e.num_leds) \div ActiveTotal(e)

\* C38 as stated: when the total weight of the active sections is nonzero, a
\* section of weight 0 is rendered with no LEDs, whatever its position in the
\* list, the last included.
C38_ZeroWeightNoLeds ==
    [][(IsSection /\ op' = "current" /\ res' = OkRes /\ ActiveTotal(eff) # 0)
       => \A i \in 1..eff.count :
            eff.sections[i].weight = 0 => LedsOf(eff, buf', i) = 0]_vars

\* C38, amended: when the total weight of the active sections is nonzero, a
\* section of weight 0 that is not the last active section is rendered with
\* no LEDs; a last active section of weight 0 is rendered with the rounding
\* remainder, num_leds minus the sum of floor(weight * num_leds / total) over
\* the sections before it, which can be more than none.
C38_ZeroWeightBeforeLast ==
    [][(IsSection /\ op' = "current" /\ res' = OkRes /\ ActiveTotal(eff) # 0)
       => \A i \in 1..eff.count :
            eff.sections[i].weight = 0
            => LedsOf(eff, buf', i) =
                 IF i < eff.count THEN 0
                 ELSE eff.num_leds - SharesBefore(eff, eff.count)]_vars

\* Weights 1:1:0 over 3 LEDs: the last section, of weight 0, holds LED 2.
C38_Witness ==
    /\ IsSection /\ op = "current" /\ res = OkRes
    /\ eff.count = 3 /\ eff.num_leds = 3
    /\ ActiveWeights = <<1, 1, 0>>
    /\ Frame(buf, 3) = <<ActivePrimary(1), ActivePrimary(2), ActivePrimary(3)>>

(***************************************************************************)
(* hsv_to_rgb called at every hue and saturation; the properties of the    *)
(* call are then checked at every value.                                   *)
(***************************************************************************)
InitHsv == InitOn({"debug"})

NextHsv == CallHsv(Byte, Byte, {255})

SpecHsv == InitHsv /\ [][NextHsv]_vars

\* C39: for every hue, saturation and value in 0..=255 the largest channel of
\* hsv_to_rgb(hue, saturation, value) equals value: the sector index is in
\* 0..=5, the intermediates p, q and t never exceed value, and no 16-bit
\* intermediate leaves 0..65535.
C39_HsvMaxChannelIsValue ==
    (op = "hsv_to_rgb")
    => /\ max_channel_brightness(res.val) = arg[3]
       /\ \A value \in Byte :
            LET c == hsv_to_rgb(arg[1], arg[2], value)
                parts == hsv_parts(arg[1], arg[2], value)
            IN  /\ max_channel_brightness(c) = value
                /\ arg[2] > 0
                   => /\ parts.sector >= 0 /\ parts.sector <= 5
                      /\ parts.p <= value /\ parts.q <= value /\ parts.t <= value
                      /\ ~parts.overflow

\* Hue 255 (sector 5) at saturation 255 and value 255 is (255, 0, 5).
C39_Witness ==
    /\ op = "hsv_to_rgb" /\ arg = <<255, 255, 255>>
    /\ res = Value(<<255, 0, 5>>)
    /\ hsv_parts(255, 255, 255).sector = 5

(***************************************************************************)
(* A led-effects PulseEffect whose owner calls update() again and again:    *)
(* no reset() and no other call comes between two updates, and the loop    *)
(* never stops.  k counts the updates up to LiveMaxTicks and stays there.  *)
(***************************************************************************)
LiveMaxTicks == 3

PulseUpdateForever(maxk, colors) ==
    /\ IsLedPulse
    /\ \E rgb \in colors :
         LET r == PulseEffect_update(eff, rgb)
         IN  /\ eff' = r.self
             /\ res' = Value(r.color)
             /\ arg' = rgb
    /\ op' = "update"
    /\ k' = IF k < maxk THEN k + 1 ELSE k
    /\ UNCHANGED <<platform, buf, stage, made>>

InitLive == InitOn({"debug"})

NextLive ==
    \/ PulseNew
    \/ PulseWithRange(RangeMins, RangeMaxs, RangeSteps)
    \/ PulseUpdateForever(LiveMaxTicks, BaseColors)

SpecLive ==
    /\ InitLive
    /\ [][NextLive]_vars
    /\ WF_vars(PulseUpdateForever(LiveMaxTicks, BaseColors))

\* C40: a led-effects PulseEffect under repeated update() calls never gets
\* stuck, for every with_range(min, max, step), max = 255 and min = 0 with a
\* saturating step included: while rising, brightness eventually reaches a
\* value >= max and the direction flips to falling; while falling, brightness
\* eventually reaches a value <= min and the direction flips to rising; so
\* the alternation repeats forever.
C40_PulseNeverStuck ==
    /\ (IsLedPulse /\ eff.increasing)
         ~> (IsLedPulse /\ ~eff.increasing
               /\ eff.brightness >= eff.max_brightness)
    /\ (IsLedPulse /\ ~eff.increasing)
         ~> (IsLedPulse /\ eff.increasing
               /\ eff.brightness <= eff.min_brightness)

\* with_range(0, 255, 100): the third step saturated at 255, the turn at the
\* top was taken, and the fall has saturated at 0 and turned again.
C40_Witness ==
    /\ IsLedPulse /\ op = "update"
    /\ made = PulseEffect_with_range(0, 255, 100).self
    /\ eff.brightness = 0 /\ eff.increasing
    /\ k >= LiveMaxTicks

====
